---- MODULE Spec2Model ----
(***************************************************************************)
(* RosaServer api.cpp: the reset interception (hookAndReset), the scoped   *)
(* removal of redirects around calls into the host, and the per-category   *)
(* side-storage tables (playerDataTables, humanDataTables, itemDataTables, *)
(* vehicleDataTables).                                                     *)
(*                                                                         *)
(* Everything runs on the one main thread, so the state is a call stack:   *)
(* a frame is one native activation (an API operation called by script, or *)
(* an interception trampoline entered through an installed redirect).  A   *)
(* frame at pc "orig" is inside the host's original function, which may    *)
(* call further host functions; a frame at pc "pre"/"post" is inside the   *)
(* script callback, which may call API operations.                         *)
(***************************************************************************)
EXTENDS Integers, Sequences, FiniteSets, TLC

\* ---------------------------------------------------------------- bounds
NSlots == 2          \* slots per entity array (maxNumberOf... in the host)
MaxDepth == 3        \* frames on the call stack
MaxNest == 1         \* the same, in the runs that exercise the side storage
MaxTables == 2       \* sol::table containers allocated in a run that tells
                     \* them apart
MaxNameLen == 2      \* pieces of an event name passed to hook.enable

Slots == 0 .. (NSlots - 1)
Owners == {0}        \* the players script code creates humans for
NoRef == 0 - 1       \* the sentinel -1: no slot / no reference
\* an entry of a ...DataTables array: nullptr, or a container that script
\* code has left empty or has stored something in
Null == "null"
Entries == {Null, "empty", "filled"}

\* ------------------------------------------------------- the host's table
Cats == {"players", "humans", "items", "vehicles"}
NoHook == "none"
Hooks == {"ResetGame", "EventMessage", "CreateItem", "DeleteItem",
          "CreateVehicle", "CreatePlayer", "DeletePlayer",
          "CreateHuman", "DeleteHuman"}

\* host function -> the redirect api.cpp removes around it (NoHook: api.cpp
\* calls it with no scoped removal), its entity category and what it does
HostFns ==
  [ resetGame          |-> [hook |-> "ResetGame",     cat |-> "none",     kind |-> "reset"],
    createEventMessage |-> [hook |-> "EventMessage",  cat |-> "none",     kind |-> "event"],
    createItem         |-> [hook |-> "CreateItem",    cat |-> "items",    kind |-> "create"],
    createRope         |-> [hook |-> NoHook,          cat |-> "items",    kind |-> "create"],
    deleteItem         |-> [hook |-> "DeleteItem",    cat |-> "items",    kind |-> "delete"],
    createVehicle      |-> [hook |-> "CreateVehicle", cat |-> "vehicles", kind |-> "create"],
    deleteVehicle      |-> [hook |-> NoHook,          cat |-> "vehicles", kind |-> "delete"],
    createPlayer       |-> [hook |-> "CreatePlayer",  cat |-> "players",  kind |-> "create"],
    deletePlayer       |-> [hook |-> "DeletePlayer",  cat |-> "players",  kind |-> "delete"],
    createHuman        |-> [hook |-> "CreateHuman",   cat |-> "humans",   kind |-> "create"],
    deleteHuman        |-> [hook |-> "DeleteHuman",   cat |-> "humans",   kind |-> "delete"] ]

\* the entity family a run exercises, with the host functions it calls
Groups == {"reset", "items", "vehicles", "players", "humans"}
GroupFns(g) ==
  CASE g = "reset"    -> {"resetGame", "createEventMessage"}
    [] g = "items"    -> {"createItem", "createRope", "deleteItem"}
    [] g = "vehicles" -> {"createVehicle", "deleteVehicle"}
    [] g = "players"  -> {"createPlayer", "deletePlayer"}
    [] g = "humans"   -> {"createHuman", "deleteHuman"}
GroupHooks(g) == {HostFns[f].hook : f \in GroupFns(g)} \ {NoHook}
GroupCats(g) == {HostFns[f].cat : f \in GroupFns(g)} \ {"none"}

CbResults == {"falsy", "truthy", "error"}

VARIABLES
  group,        \* the entity family this run exercises
  limit,        \* the deepest call stack this run goes to
  installed,    \* installed[h]: the redirect of hook h is in place
  enabledKeys,  \* Hooks::enabledKeys
  hookRun,      \* (*lua)["hook"]["run"] != sol::nil
  stack,        \* the main thread's call stack, outermost frame first
  active,       \* active[c][i]: the host's active flag of slot i
  dataTables,   \* dataTables[c][i]: playerDataTables .. vehicleDataTables
  humanID,      \* Player::humanID
  playerID,     \* Human::playerID
  done,         \* the activation that returned in the last step
  track,        \* this run tells the sol::table containers apart
  alloc,        \* the containers `new sol::table` has made so far
  held,         \* held[c][i]: which container dataTables[c][i] points to
  accountID,    \* Player::accountID
  requestQueue,        \* std::queue<LuaHTTPRequest> requestQueue
  responseQueue,       \* std::queue<LuaHTTPResponse> responseQueue
  stateResetMutex,     \* who holds each std::mutex: "free", "worker", "script"
  requestQueueMutex,
  responseQueueMutex,
  worker,       \* where HTTPThread is, its request and its result
  script,       \* where the main thread is in an HTTP operation or a reset
  env,          \* how many times the scripting environment was rebuilt
  answered,     \* answered[c]: the responses pushed for callback c so far
  accounts      \* Engine::accounts[i].subRosaID and .phoneNumber

vars == <<group, limit, installed, enabledKeys, hookRun, stack, active, dataTables,
          humanID, playerID, done, track, alloc, held, accountID,
          requestQueue, responseQueue, stateResetMutex, requestQueueMutex,
          responseQueueMutex, worker, script, env, answered, accounts>>

\* One activation.  k: "api" (an API operation called by script) or "tramp"
\* (an interception trampoline); name: the operation, or the host function
\* intercepted; arg: the slot it was called on; fn, farg: the host function
\* it is calling and the argument; r: what its host call returned; ev: what
\* this activation did, in order ("pre", "orig", "post", "log", "throw");
\* hook/removed: its live ScopedHookRemove and that object's
\* removed_ flag; took: the redirects its scoped removals really removed;
\* func: its local `func != sol::nil`; aux: a second slot it touched; had:
\* the side-storage entry it found at the slot it cleared (hadAux: at slot
\* aux); res, res2: what the callback and the Post callback returned to it;
\* prev, prevSlot: the operation that returned just before this one, and the
\* slot whose entry that one cleared; cat: the category a proxy-layer
\* operation works on; flags: the slots whose active flag it saw set.
Frame(k, name, pc, arg) ==
  [k |-> k, name |-> name, pc |-> pc, arg |-> arg, fn |-> "none",
   farg |-> NoRef, r |-> NoRef, ev |-> <<>>, hook |-> NoHook,
   removed |-> FALSE, took |-> {}, func |-> FALSE,
   aux |-> NoRef, had |-> Null, hadAux |-> Null, res |-> "none",
   res2 |-> "none", prev |-> "none", prevSlot |-> NoRef,
   cat |-> "none", flags |-> {}]

NoDone == Frame("none", "none", "none", NoRef)

Top == stack[Len(stack)]
Pop == SubSeq(stack, 1, Len(stack) - 1)
SetTop(f) == [stack EXCEPT ![Len(stack)] = f]

\* script code is running: at top level, or inside a callback
ScriptCtx == IF stack = <<>> THEN TRUE ELSE Top.pc \in {"pre", "post"}
\* the host's own code is running: its main loop, or an original function
HostCtx == IF stack = <<>> THEN TRUE ELSE Top.pc = "orig"

\* ------------------------------------------------- subhook::ScopedHookRemove
\* constructor: removed_ = hook->Remove(), which succeeds only on an
\* installed redirect
ScopedHookRemove(inst, h) ==
  IF h = NoHook THEN inst ELSE [inst EXCEPT ![h] = FALSE]
Removed(inst, h) == IF h = NoHook THEN FALSE ELSE inst[h]
\* destructor: if (removed_) hook->Install()
ScopedHookRestore(inst, h, removed) ==
  IF removed THEN [inst EXCEPT ![h] = TRUE] ELSE inst

\* the frame fr with a scoped removal of h taken under inst
WithScope(fr, inst, h) ==
  [fr EXCEPT !.hook = h, !.removed = Removed(inst, h),
             !.took = IF Removed(inst, h) THEN @ \cup {h} ELSE @]
\* the frame fr after its scoped removal went out of scope
NoScope(fr) == [fr EXCEPT !.hook = NoHook, !.removed = FALSE]

\* ------------------------------------------------------------ script errors
\* faulty variant of noLuaCallError: an invalid result passes for a valid one
noLuaCallError_blind(res) == TRUE

\* noLuaCallError: true iff the protected call result is valid; an invalid
\* one is printed to the console
noLuaCallError(res) == res # "error"
Logged(res) == IF noLuaCallError(res) THEN <<>> ELSE <<"log">>

\* ------------------------------------------------------------------ the host
\* what the original of host function f may return when called on slot a
HostResult(f, a, id) ==
  IF HostFns[f].kind = "create"
  THEN id = NoRef \/ (id \in Slots /\ ~active[HostFns[f].cat][id])
  ELSE id = 0
\* What the original of host function f leaves in the host's arrays: a
\* create activates the slot it returns and a delete deactivates its slot;
\* createPlayer hands out a player with no human, and deleteHuman unlinks
\* the human from its player.
HostEffect(f, a, id) ==
  LET c == HostFns[f].cat IN
  [active |-> IF HostFns[f].kind = "create" /\ id # NoRef
                THEN [active EXCEPT ![c][id] = TRUE]
              ELSE IF HostFns[f].kind = "delete"
                THEN [active EXCEPT ![c][a] = FALSE]
              ELSE active,
   humanID |-> IF f = "createPlayer" /\ id # NoRef
                 THEN [humanID EXCEPT ![id] = NoRef]
               ELSE IF f = "deleteHuman"
                 THEN [p \in Slots |-> IF humanID[p] = a THEN NoRef ELSE humanID[p]]
               ELSE humanID,
   playerID |-> IF f = "deleteHuman"
                  THEN [playerID EXCEPT ![a] = NoRef] ELSE playerID]
Now == [active |-> active, humanID |-> humanID, playerID |-> playerID]

\* the slots the host may call f on
FnArgs(f) == IF HostFns[f].kind = "delete" THEN Slots ELSE {NoRef}

\* The top frame's host call completes with result id: the original it was
\* in returns (pc "orig"), or the trampoline its call landed in has returned
\* (pc "ret").
Completes(id) ==
  IF Top.pc = "orig" THEN HostResult(Top.fn, Top.farg, id)
  ELSE Top.pc = "ret" /\ id = Top.r
\* the host's arrays after that
After(id) ==
  IF Top.pc = "orig" THEN HostEffect(Top.fn, Top.farg, id) ELSE Now
SetEntities(e) ==
  /\ active' = e.active
  /\ humanID' = e.humanID
  /\ playerID' = e.playerID

\* the stack after the top frame returns r, having done ev: a caller that
\* waits for its host call takes both over
Return(r, ev) ==
  LET s == Pop IN
  IF s # <<>> /\ s[Len(s)].pc = "wait"
  THEN [s EXCEPT ![Len(s)] = [@ EXCEPT !.pc = "ret", !.r = r, !.ev = @ \o ev]]
  ELSE s

\* Engine::f(a) called by the frame fr standing on the stack s: the call
\* lands in the trampoline when f's redirect is installed (fr waits for it),
\* and in the original otherwise.
CallEngine(s, fr, inst, f, a) ==
  LET h == HostFns[f].hook
      me == [fr EXCEPT !.fn = f, !.farg = a]
  IN IF (IF h = NoHook THEN FALSE ELSE inst[h])
     THEN Append(Append(s, [me EXCEPT !.pc = "wait"]),
                 [Frame("tramp", f, "enter", a) EXCEPT !.fn = f, !.farg = a])
     ELSE Append(s, [me EXCEPT !.pc = "orig", !.ev = @ \o <<"orig">>])

\* -------------------------------------------------- the HTTP worker's state
\* Bounds: the callbacks a run hands to l_http_get / l_http_post, and the
\* environment resets it performs.
MaxRequests == 2
MaxResets == 1
Callbacks == 1 .. MaxRequests
Free == "free"
NoRequest == [callback |-> 0, type |-> "none", env |-> 0]
\* what client.Get / client.Post gives back: no result (the exchange failed),
\* or a response with a status, a body and headers
Statuses == {200, 404}
NoResult == [ok |-> FALSE, status |-> Null, body |-> Null, headers |-> Null]
Results == {NoResult} \cup
           {[ok |-> TRUE, status |-> st, body |-> "body", headers |-> "headers"] :
              st \in Statuses}
NoResponse == [callback |-> 0, success |-> FALSE, status |-> Null,
               body |-> Null, headers |-> Null]
\* Before main starts the worker: both queues empty, no lock held, the worker
\* at the top of its loop, the main thread between operations.
HttpInit ==
  /\ requestQueue = <<>>
  /\ responseQueue = <<>>
  /\ stateResetMutex = Free
  /\ requestQueueMutex = Free
  /\ responseQueueMutex = Free
  /\ worker = [pc |-> "loop", req |-> NoRequest, res |-> NoResult,
               response |-> NoResponse]
  /\ script = [pc |-> "idle", req |-> NoRequest]
  /\ env = 0
  /\ answered = [c \in Callbacks |-> 0]

\* ------------------------------------------------------------------- Init
\* The redirects are installed at startup and nothing is active.  In the
\* reset family the registry flags and the presence of hook.run are free; in
\* the entity families every event is enabled and hook.run exists (an event
\* switched off behaves as a callback that declines).
InitWith(G, lim, tr) ==
  /\ group \in G
  /\ limit = lim
  /\ track = tr
  /\ alloc = 0
  /\ held = [c \in Cats |-> [i \in Slots |-> 0]]
  /\ accountID = [i \in Slots |-> 0]
  /\ HttpInit
  /\ accounts = [i \in Slots |-> [subRosaID |-> 0, phoneNumber |-> 0]]
  /\ installed = [h \in Hooks |-> TRUE]
  /\ enabledKeys \in
       IF group = "reset"
       THEN {e \in [Hooks -> BOOLEAN] : \A h \in Hooks \ GroupHooks(group) : ~e[h]}
       ELSE {[h \in Hooks |-> h \in GroupHooks(group)]}
  /\ hookRun \in (IF group = "reset" THEN BOOLEAN ELSE {TRUE})
  /\ stack = <<>>
  /\ active = [c \in Cats |-> [i \in Slots |-> FALSE]]
  /\ dataTables = [c \in Cats |-> [i \in Slots |-> Null]]
  /\ humanID = [i \in Slots |-> NoRef]
  /\ playerID = [i \in Slots |-> NoRef]
  /\ done = NoDone

InitOf(G, lim) == InitWith(G, lim, FALSE)

Entities == <<active, humanID, playerID>>
\* the two queues, the three locks and the two threads of the HTTP worker
Http == <<requestQueue, responseQueue, stateResetMutex, requestQueueMutex,
          responseQueueMutex, worker, script, env, answered>>
Registry == <<group, limit, enabledKeys, hookRun>>
\* what only getDataTable and Player::setAccount write
Extra == <<track, alloc, held, accountID, Http, accounts>>

\* ------------------------------------------------ the host calls a function
\* The host (its main loop, or one of its functions) calls f whose redirect
\* is installed: control lands in the trampoline.
HostCall(f, a) ==
  /\ HostCtx
  /\ Len(stack) < limit
  /\ IF HostFns[f].hook = NoHook THEN FALSE ELSE installed[HostFns[f].hook]
  /\ stack' = Append(stack, [Frame("tramp", f, "enter", a)
                               EXCEPT !.fn = f, !.farg = a])
  /\ done' = NoDone
  /\ UNCHANGED <<Registry, Extra, installed, Entities, dataTables>>

\* The host calls f and no redirect is in the way: the original runs.
HostDirect(f, a) ==
  /\ HostCtx
  /\ IF HostFns[f].hook = NoHook THEN TRUE ELSE ~installed[HostFns[f].hook]
  /\ \E id \in Slots \cup {NoRef, 0} :
       HostResult(f, a, id) /\ SetEntities(HostEffect(f, a, id))
  /\ done' = NoDone
  /\ UNCHANGED <<Registry, Extra, installed, stack, dataTables>>

\* ---------------------------------------------------------- hookAndReset
\* faulty variant of hookAndReset_enter: the registry is not consulted and
\* the callback runs whenever hook.run exists
hookAndReset_enter_unchecked ==
  /\ stack # <<>> /\ Top.k = "tramp" /\ Top.name = "resetGame"
  /\ Top.pc = "enter"
  /\ IF hookRun
     THEN /\ stack' = SetTop([Top EXCEPT !.pc = "pre", !.func = TRUE,
                                         !.ev = <<"pre">>])
          /\ installed' = installed
     ELSE /\ installed' = ScopedHookRemove(installed, "ResetGame")
          /\ stack' = CallEngine(Pop, WithScope(Top, installed, "ResetGame"),
                                 installed', "resetGame", Top.arg)
  /\ Len(stack') <= limit
  /\ done' = NoDone
  /\ UNCHANGED <<Registry, Extra, Entities, dataTables>>

hookAndReset_enter ==
  /\ stack # <<>> /\ Top.k = "tramp" /\ Top.name = "resetGame"
  /\ Top.pc = "enter"
  /\ IF enabledKeys["ResetGame"]
     THEN IF hookRun
          THEN \* auto res = func("ResetGame", reason)
               /\ stack' = SetTop([Top EXCEPT !.pc = "pre", !.func = TRUE,
                                              !.ev = <<"pre">>])
               /\ installed' = installed
          ELSE \* func == nil, noParent stays false
               /\ installed' = ScopedHookRemove(installed, "ResetGame")
               /\ stack' = CallEngine(Pop, WithScope(Top, installed, "ResetGame"),
                                      installed', "resetGame", Top.arg)
     ELSE /\ installed' = ScopedHookRemove(installed, "ResetGame")
          /\ stack' = CallEngine(Pop, WithScope(Top, installed, "ResetGame"),
                                 installed', "resetGame", Top.arg)
  /\ Len(stack') <= limit
  /\ done' = NoDone
  /\ UNCHANGED <<Registry, Extra, Entities, dataTables>>

\* faulty variant of hookAndReset_pre: what the callback returned is not
\* looked at and the original runs in any case
hookAndReset_pre_ignored(res) ==
  /\ stack # <<>> /\ Top.k = "tramp" /\ Top.name = "resetGame"
  /\ Top.pc = "pre"
  /\ LET me == [Top EXCEPT !.res = res, !.ev = @ \o Logged(res)]
     IN /\ installed' = ScopedHookRemove(installed, "ResetGame")
        /\ stack' = CallEngine(Pop, WithScope(me, installed, "ResetGame"),
                               installed', "resetGame", Top.arg)
  /\ done' = NoDone
  /\ Len(stack') <= limit
  /\ UNCHANGED <<Registry, Extra, Entities, dataTables>>

\* the ResetGame callback returned res
hookAndReset_pre(res) ==
  /\ stack # <<>> /\ Top.k = "tramp" /\ Top.name = "resetGame"
  /\ Top.pc = "pre"
  /\ LET noParent == noLuaCallError(res) /\ res = "truthy"
         me == [Top EXCEPT !.res = res, !.ev = @ \o Logged(res)]
     IN IF ~noParent
        THEN /\ installed' = ScopedHookRemove(installed, "ResetGame")
             /\ stack' = CallEngine(Pop, WithScope(me, installed, "ResetGame"),
                                    installed', "resetGame", Top.arg)
             /\ done' = NoDone
        ELSE /\ installed' = installed
             /\ stack' = Return(NoRef, me.ev)
             /\ done' = [me EXCEPT !.pc = "done", !.res = res]
  /\ Len(stack') <= limit
  /\ UNCHANGED <<Registry, Extra, Entities, dataTables>>

\* faulty variant of hookAndReset_orig: PostResetGame is never run
hookAndReset_orig_noPost ==
  /\ stack # <<>> /\ Top.k = "tramp" /\ Top.name = "resetGame"
  /\ Completes(0)
  /\ SetEntities(After(0))
  /\ installed' = ScopedHookRestore(installed, Top.hook, Top.removed)
  /\ stack' = Return(0, Top.ev)
  /\ done' = [Top EXCEPT !.pc = "done"]
  /\ UNCHANGED <<Registry, Extra, dataTables>>

\* faulty variant of hookAndReset_orig: the scoped removal is declared in the
\* enclosing block and is still alive while PostResetGame runs
hookAndReset_orig_scopeKept ==
  /\ stack # <<>> /\ Top.k = "tramp" /\ Top.name = "resetGame"
  /\ Completes(0)
  /\ SetEntities(After(0))
  /\ IF Top.func
     THEN /\ installed' = installed
          /\ stack' = SetTop([Top EXCEPT !.pc = "post", !.ev = @ \o <<"post">>])
          /\ done' = NoDone
     ELSE /\ installed' = ScopedHookRestore(installed, Top.hook, Top.removed)
          /\ stack' = Return(0, Top.ev)
          /\ done' = [Top EXCEPT !.pc = "done"]
  /\ UNCHANGED <<Registry, Extra, dataTables>>

\* Engine::resetGame() returned: the scoped removal ends, then PostResetGame
hookAndReset_orig ==
  /\ stack # <<>> /\ Top.k = "tramp" /\ Top.name = "resetGame"
  /\ Completes(0)
  /\ SetEntities(After(0))
  /\ installed' = ScopedHookRestore(installed, Top.hook, Top.removed)
  /\ IF Top.func
     THEN /\ stack' = SetTop([NoScope(Top) EXCEPT !.pc = "post",
                                                  !.ev = @ \o <<"post">>])
          /\ done' = NoDone
     ELSE /\ stack' = Return(0, Top.ev)
          /\ done' = [Top EXCEPT !.pc = "done"]
  /\ UNCHANGED <<Registry, Extra, dataTables>>

\* the PostResetGame callback returned res
hookAndReset_post(res) ==
  /\ stack # <<>> /\ Top.k = "tramp" /\ Top.name = "resetGame"
  /\ Top.pc = "post"
  /\ LET me == [Top EXCEPT !.ev = @ \o Logged(res)]
     IN /\ stack' = Return(0, me.ev)
        /\ done' = [me EXCEPT !.pc = "done", !.res2 = res]
  /\ UNCHANGED <<Registry, Extra, installed, Entities, dataTables>>

\* The script, inside the ResetGame or the PostResetGame callback, makes the
\* host reset the game: the host calls its reset function, which lands in
\* the trampoline when the redirect is in place and in the original otherwise.
host_reset_call ==
  /\ stack # <<>> /\ Top.k = "tramp" /\ Top.name = "resetGame"
  /\ Top.pc \in {"pre", "post"}
  /\ Len(stack) < limit
  /\ stack' = CallEngine(stack, Frame("api", "host_reset", "call", NoRef),
                         installed, "resetGame", NoRef)
  /\ Len(stack') <= limit
  /\ done' = NoDone
  /\ UNCHANGED <<Registry, Extra, installed, Entities, dataTables>>
host_reset_return ==
  /\ stack # <<>> /\ Top.k = "api" /\ Top.name = "host_reset"
  /\ Completes(0)
  /\ SetEntities(After(0))
  /\ stack' = Pop
  /\ done' = [Top EXCEPT !.pc = "done"]
  /\ UNCHANGED <<Registry, Extra, installed, dataTables>>

\* ------------------------------------- the other interception trampolines
Trampoline_enter ==
  /\ stack # <<>> /\ Top.k = "tramp" /\ Top.name # "resetGame"
  /\ Top.pc = "enter"
  /\ LET h == HostFns[Top.name].hook
     IN IF enabledKeys[h] /\ hookRun
        THEN /\ stack' = SetTop([Top EXCEPT !.pc = "pre", !.ev = <<"pre">>])
             /\ installed' = installed
        ELSE /\ installed' = ScopedHookRemove(installed, h)
             /\ stack' = CallEngine(Pop, WithScope(Top, installed, h),
                                    installed', Top.name, Top.arg)
  /\ Len(stack') <= limit
  /\ done' = NoDone
  /\ UNCHANGED <<Registry, Extra, Entities, dataTables>>

Trampoline_pre(res) ==
  /\ stack # <<>> /\ Top.k = "tramp" /\ Top.name # "resetGame"
  /\ Top.pc = "pre"
  /\ LET h == HostFns[Top.name].hook
         suppress == noLuaCallError(res) /\ res = "truthy"
         me == Top
     IN IF ~suppress
        THEN /\ installed' = ScopedHookRemove(installed, h)
             /\ stack' = CallEngine(Pop, WithScope(me, installed, h),
                                    installed', Top.name, Top.arg)
             /\ done' = NoDone
        ELSE /\ installed' = installed
             /\ stack' = Return(NoRef, me.ev)
             /\ done' = [me EXCEPT !.pc = "done", !.res = res]
  /\ Len(stack') <= limit
  /\ UNCHANGED <<Registry, Extra, Entities, dataTables>>

Trampoline_orig ==
  /\ stack # <<>> /\ Top.k = "tramp" /\ Top.name # "resetGame"
  /\ \E id \in Slots \cup {NoRef} :
       /\ Completes(id)
       /\ SetEntities(After(id))
       /\ stack' = Return(id, Top.ev)
       /\ done' = [Top EXCEPT !.pc = "done", !.r = id]
  /\ installed' = ScopedHookRestore(installed, Top.hook, Top.removed)
  /\ UNCHANGED <<Registry, Extra, dataTables>>

\* ------------------------------------------------------------------- chat
\* chat::announce, chat::tellAdmins, chat::addRaw
ChatOps == {"chat_announce", "chat_tellAdmins", "chat_addRaw"}

chat_call(op) ==
  /\ ScriptCtx
  /\ Len(stack) < limit
  /\ installed' = ScopedHookRemove(installed, "EventMessage")
  /\ stack' = CallEngine(stack,
                         WithScope(Frame("api", op, "call", NoRef),
                                   installed, "EventMessage"),
                         installed', "createEventMessage", NoRef)
  /\ Len(stack') <= limit
  /\ done' = NoDone
  /\ UNCHANGED <<Registry, Extra, Entities, dataTables>>

chat_return ==
  /\ stack # <<>> /\ Top.k = "api" /\ Top.name \in ChatOps
  /\ Completes(0)
  /\ SetEntities(After(0))
  /\ installed' = ScopedHookRestore(installed, Top.hook, Top.removed)
  /\ stack' = Pop
  /\ done' = [Top EXCEPT !.pc = "done"]
  /\ UNCHANGED <<Registry, Extra, dataTables>>

\* -------------------------------------------- the entity API operations
\* `if (X[id]) { delete X[id]; X[id] = nullptr; }`
ClearDataTable(tables, c, id) == [tables EXCEPT ![c][id] = Null]

\* An API operation op called by script on slot arg: it takes a scoped
\* removal of h (NoHook: none) and calls Engine::f(a).
ApiCall(op, arg, h, f, a) ==
  /\ ScriptCtx
  /\ f \in GroupFns(group)
  /\ Len(stack) < limit
  /\ installed' = ScopedHookRemove(installed, h)
  /\ stack' = CallEngine(stack,
                         WithScope(Frame("api", op, "call", arg), installed, h),
                         installed', f, a)
  /\ Len(stack') <= limit
  /\ done' = NoDone
  /\ UNCHANGED <<Registry, Extra, Entities, dataTables>>

\* The host call of creating operation op returned id: op releases the
\* side-storage entry of slot id when `clear`, and returns the proxy (no
\* value for -1).
ApiCreated(op, c, clear) ==
  /\ stack # <<>> /\ Top.k = "api" /\ Top.name = op
  /\ \E id \in Slots \cup {NoRef} :
       /\ Completes(id)
       /\ SetEntities(After(id))
       /\ dataTables' = IF id # NoRef /\ clear
                        THEN ClearDataTable(dataTables, c, id) ELSE dataTables
       /\ done' = [Top EXCEPT
                     !.pc = "done", !.r = id,
                     !.had = IF id = NoRef THEN Null ELSE dataTables[c][id]]
  /\ installed' = ScopedHookRestore(installed, Top.hook, Top.removed)
  /\ stack' = Pop
  /\ UNCHANGED <<Registry, Extra>>

\* The host call of removing operation op returned: op releases the
\* side-storage entry of the slot it was called on.
ApiRemoved(op, c) ==
  /\ stack # <<>> /\ Top.k = "api" /\ Top.name = op
  /\ Completes(0)
  /\ SetEntities(After(0))
  /\ dataTables' = ClearDataTable(dataTables, c, Top.arg)
  /\ done' = [Top EXCEPT !.pc = "done", !.r = 0,
                                  !.had = dataTables[c][Top.arg]]
  /\ installed' = ScopedHookRestore(installed, Top.hook, Top.removed)
  /\ stack' = Pop
  /\ UNCHANGED <<Registry, Extra>>

\* an operation that throws std::invalid_argument while it holds a scoped
\* removal of h: the removal ends as the exception unwinds the frame
ApiThrows(op, h) ==
  /\ ScriptCtx
  /\ h \in GroupHooks(group)
  /\ Len(stack) < limit
  /\ installed' = ScopedHookRestore(ScopedHookRemove(installed, h), h,
                                    Removed(installed, h))
  /\ done' = [WithScope(Frame("api", op, "done", NoRef), installed, h)
                EXCEPT !.ev = <<"throw">>]
  /\ UNCHANGED <<Registry, Extra, stack, Entities, dataTables>>

\* faulty variant of items_createVel: no scoped removal around the host call
items_createVel_unscoped ==
  ApiCall("items_createVel", NoRef, NoHook, "createItem", NoRef)
\* faulty variant of items_createVel_return: the slot's entry is left alone
items_createVel_return_keep == ApiCreated("items_createVel", "items", FALSE)
\* faulty variant of items_createVel_nil: the redirect is removed by hand and
\* the throw skips putting it back
items_createVel_nil_leak ==
  /\ ScriptCtx
  /\ "CreateItem" \in GroupHooks(group)
  /\ Len(stack) < limit
  /\ installed' = ScopedHookRemove(installed, "CreateItem")
  /\ done' = [WithScope(Frame("api", "items_createVel", "done", NoRef),
                        installed, "CreateItem") EXCEPT !.ev = <<"throw">>]
  /\ UNCHANGED <<Registry, Extra, stack, Entities, dataTables>>
\* faulty variant of Item_remove_return: the redirect is put back by hand,
\* whether or not this activation had removed it
Item_remove_return_install ==
  /\ stack # <<>> /\ Top.k = "api" /\ Top.name = "Item_remove"
  /\ Completes(0)
  /\ SetEntities(After(0))
  /\ dataTables' = ClearDataTable(dataTables, "items", Top.arg)
  /\ done' = [Top EXCEPT !.pc = "done", !.r = 0,
                                  !.had = dataTables["items"][Top.arg]]
  /\ installed' = [installed EXCEPT !["DeleteItem"] = TRUE]
  /\ stack' = Pop
  /\ UNCHANGED <<Registry, Extra>>
\* faulty variant of Vehicle_remove_return: the slot's entry is left alone
Vehicle_remove_return_keep ==
  /\ stack # <<>> /\ Top.k = "api" /\ Top.name = "Vehicle_remove"
  /\ Completes(0)
  /\ SetEntities(After(0))
  /\ dataTables' = dataTables
  /\ done' = [Top EXCEPT !.pc = "done", !.r = 0,
                                  !.had = dataTables["vehicles"][Top.arg]]
  /\ installed' = ScopedHookRestore(installed, Top.hook, Top.removed)
  /\ stack' = Pop
  /\ UNCHANGED <<Registry, Extra>>

\* items::create / items::createVel with a type
items_createVel == ApiCall("items_createVel", NoRef, "CreateItem", "createItem", NoRef)
items_createVel_return == ApiCreated("items_createVel", "items", TRUE)
\* items::createVel with type == nullptr
items_createVel_nil == ApiThrows("items_createVel", "CreateItem")

items_createRope == ApiCall("items_createRope", NoRef, NoHook, "createRope", NoRef)
items_createRope_return == ApiCreated("items_createRope", "items", FALSE)

Item_remove(i) == ApiCall("Item_remove", i, "DeleteItem", "deleteItem", i)
Item_remove_return == ApiRemoved("Item_remove", "items")

\* vehicles::create and vehicles::createVel
VehicleCreateOps == {"vehicles_create", "vehicles_createVel"}
vehicles_create(op) == ApiCall(op, NoRef, "CreateVehicle", "createVehicle", NoRef)
vehicles_create_return(op) == ApiCreated(op, "vehicles", TRUE)

Vehicle_remove(i) == ApiCall("Vehicle_remove", i, NoHook, "deleteVehicle", i)
Vehicle_remove_return == ApiRemoved("Vehicle_remove", "vehicles")

players_createBot == ApiCall("players_createBot", NoRef, "CreatePlayer", "createPlayer", NoRef)
players_createBot_return == ApiCreated("players_createBot", "players", TRUE)

Player_remove(i) == ApiCall("Player_remove", i, "DeletePlayer", "deletePlayer", i)
Player_remove_return == ApiRemoved("Player_remove", "players")

Human_remove(i) == ApiCall("Human_remove", i, "DeleteHuman", "deleteHuman", i)
Human_remove_return == ApiRemoved("Human_remove", "humans")

\* humans::create(pos, rot, ply), ply being player p
humans_create(p) ==
  IF humanID[p] # NoRef
  THEN /\ ApiCall("humans_create", p, "DeleteHuman", "deleteHuman", humanID[p])
  ELSE /\ ApiCall("humans_create", p, "CreateHuman", "createHuman", p)

\* Engine::deleteHuman(ply->humanID) returned: its scoped removal ends and
\* the one around Engine::createHuman begins
humans_create_deleted ==
  /\ stack # <<>> /\ Top.k = "api" /\ Top.name = "humans_create"
  /\ Top.fn = "deleteHuman"
  /\ Completes(0)
  /\ SetEntities(After(0))
  /\ LET inst == ScopedHookRestore(installed, Top.hook, Top.removed)
         me == [NoScope(Top) EXCEPT !.aux = Top.farg,
                                    !.hadAux = dataTables["humans"][Top.farg]]
     IN /\ installed' = ScopedHookRemove(inst, "CreateHuman")
        /\ stack' = CallEngine(Pop, WithScope(me, inst, "CreateHuman"),
                               installed', "createHuman", Top.arg)
  /\ Len(stack') <= limit
  /\ done' = NoDone
  /\ UNCHANGED <<Registry, Extra, dataTables>>

\* faulty variant of humans_create_return: the player's humanID is left as
\* the host's deleteHuman put it
humans_create_return_halfLink ==
  /\ stack # <<>> /\ Top.k = "api" /\ Top.name = "humans_create"
  /\ Top.fn = "createHuman"
  /\ \E id \in Slots \cup {NoRef} :
       /\ Completes(id)
       /\ IF id = NoRef
          THEN /\ SetEntities(After(id))
               /\ dataTables' = dataTables
          ELSE /\ dataTables' = ClearDataTable(dataTables, "humans", id)
               /\ active' = After(id).active
               /\ playerID' = [After(id).playerID EXCEPT ![id] = Top.arg]
               /\ humanID' = After(id).humanID
       /\ done' = [Top EXCEPT
                     !.pc = "done", !.r = id,
                     !.had = IF id = NoRef THEN Null ELSE dataTables["humans"][id]]
  /\ installed' = ScopedHookRestore(installed, Top.hook, Top.removed)
  /\ stack' = Pop
  /\ UNCHANGED <<Registry, Extra>>

\* Engine::createHuman returned humanID
humans_create_return ==
  /\ stack # <<>> /\ Top.k = "api" /\ Top.name = "humans_create"
  /\ Top.fn = "createHuman"
  /\ \E id \in Slots \cup {NoRef} :
       /\ Completes(id)
       /\ IF id = NoRef
          THEN /\ SetEntities(After(id))
               /\ dataTables' = dataTables
          ELSE /\ dataTables' = ClearDataTable(dataTables, "humans", id)
               /\ active' = After(id).active
               /\ playerID' = [After(id).playerID EXCEPT ![id] = Top.arg]
               /\ humanID' = [After(id).humanID EXCEPT ![Top.arg] = id]
       /\ done' = [Top EXCEPT
                     !.pc = "done", !.r = id,
                     !.had = IF id = NoRef THEN Null ELSE dataTables["humans"][id]]
  /\ installed' = ScopedHookRestore(installed, Top.hook, Top.removed)
  /\ stack' = Pop
  /\ UNCHANGED <<Registry, Extra>>

\* the slot whose entry the operation that has just returned cleared
ClearedBy(fr) ==
  IF fr.k = "api" /\ fr.name \in {"Player_remove", "Human_remove",
                                   "Item_remove", "Vehicle_remove"}
    THEN fr.arg
  ELSE IF fr.k = "api" /\ fr.name \in {"items_createVel", "vehicles_create",
                                        "vehicles_createVel",
                                        "players_createBot", "humans_create"}
    THEN fr.r
  ELSE NoRef

\* faulty variant of getDataTable: a new container on every call
getDataTable_renew(c, i) ==
  /\ ScriptCtx
  /\ c \in GroupCats(group)
  /\ track => alloc < MaxTables
  /\ dataTables' = [dataTables EXCEPT ![c][i] = "empty"]
  /\ alloc' = IF track THEN alloc + 1 ELSE alloc
  /\ held' = IF track THEN [held EXCEPT ![c][i] = alloc + 1] ELSE held
  /\ done' = IF track
             THEN [Frame("api", "getDataTable", "done", i) EXCEPT
                     !.had = dataTables[c][i],
                     !.r = held'[c][i],
                     !.aux = held[c][i],
                     !.prev = done.name,
                     !.prevSlot = ClearedBy(done)]
             ELSE [Frame("api", "getDataTable", "done", i) EXCEPT
                     !.had = dataTables[c][i]]
  /\ UNCHANGED <<Registry, track, accountID, Http, accounts, installed, stack,
                 Entities>>

\* faulty variant of getDataTable: an absent entry is filled with the
\* container the slot had before, when it had one
getDataTable_pooled(c, i) ==
  /\ ScriptCtx
  /\ c \in GroupCats(group)
  /\ LET absent == dataTables[c][i] = Null
         made == track /\ absent /\ held[c][i] = 0
     IN /\ made => alloc < MaxTables
        /\ dataTables' = IF absent
                         THEN [dataTables EXCEPT ![c][i] = "empty"]
                         ELSE dataTables
        /\ alloc' = IF made THEN alloc + 1 ELSE alloc
        /\ held' = IF made THEN [held EXCEPT ![c][i] = alloc + 1] ELSE held
        /\ done' = IF track
                   THEN [Frame("api", "getDataTable", "done", i) EXCEPT
                           !.had = dataTables[c][i],
                           !.r = held'[c][i],
                           !.aux = held[c][i],
                           !.prev = done.name,
                           !.prevSlot = ClearedBy(done)]
                   ELSE [Frame("api", "getDataTable", "done", i) EXCEPT
                           !.had = dataTables[c][i]]
  /\ UNCHANGED <<Registry, track, accountID, Http, accounts, installed, stack,
                 Entities>>

\* Player/Human/Item/Vehicle::getDataTable on slot i: the proxy may be one
\* getByIndex gave for an inactive slot
getDataTable(c, i) ==
  /\ ScriptCtx
  /\ c \in GroupCats(group)
  /\ LET absent == dataTables[c][i] = Null
         made == track /\ absent
     IN /\ made => alloc < MaxTables
        /\ dataTables' = IF absent
                         THEN [dataTables EXCEPT ![c][i] = "empty"]
                         ELSE dataTables
        /\ alloc' = IF made THEN alloc + 1 ELSE alloc
        /\ held' = IF made THEN [held EXCEPT ![c][i] = alloc + 1] ELSE held
        /\ done' = IF track
                   THEN [Frame("api", "getDataTable", "done", i) EXCEPT
                           !.had = dataTables[c][i],
                           !.r = held'[c][i],
                           !.aux = held[c][i],
                           !.prev = done.name,
                           !.prevSlot = ClearedBy(done)]
                   ELSE [Frame("api", "getDataTable", "done", i) EXCEPT
                           !.had = dataTables[c][i]]
  /\ UNCHANGED <<Registry, track, accountID, Http, accounts, installed, stack,
                 Entities>>

\* script code stores a value in the container it got for slot i
ScriptStore(c, i) ==
  /\ ScriptCtx
  /\ c \in GroupCats(group)
  /\ dataTables[c][i] = "empty"
  /\ dataTables' = [dataTables EXCEPT ![c][i] = "filled"]
  /\ done' = NoDone
  /\ UNCHANGED <<Registry, Extra, installed, stack, Entities>>

EntityGroups == Groups \ {"reset"}

\* the host, and the trampolines its calls land in
HostSteps ==
  \/ \E f \in GroupFns(group) : \E a \in FnArgs(f) : HostCall(f, a)
  \/ \E f \in GroupFns(group) : \E a \in FnArgs(f) : HostDirect(f, a)

ResetSteps ==
  \/ hookAndReset_enter
  \/ \E res \in CbResults : hookAndReset_pre(res)
  \/ hookAndReset_orig
  \/ \E res \in CbResults : hookAndReset_post(res)
  \/ \E op \in ChatOps : chat_call(op)
  \/ chat_return

TrampolineSteps ==
  \/ Trampoline_enter
  \/ \E res \in CbResults : Trampoline_pre(res)
  \/ Trampoline_orig

EntitySteps ==
  \/ items_createVel
  \/ items_createVel_return
  \/ items_createVel_nil
  \/ items_createRope
  \/ items_createRope_return
  \/ \E i \in Slots : Item_remove(i)
  \/ Item_remove_return
  \/ \E op \in VehicleCreateOps : vehicles_create(op)
  \/ \E op \in VehicleCreateOps : vehicles_create_return(op)
  \/ \E i \in Slots : Vehicle_remove(i)
  \/ Vehicle_remove_return
  \/ players_createBot
  \/ players_createBot_return
  \/ \E i \in Slots : Player_remove(i)
  \/ Player_remove_return
  \/ \E i \in Slots : Human_remove(i)
  \/ Human_remove_return
  \/ \E p \in Owners : humans_create(p)
  \/ humans_create_deleted
  \/ humans_create_return

TableSteps ==
  \/ \E c \in Cats : \E i \in Slots : getDataTable(c, i)
  \/ \E c \in Cats : \E i \in Slots : ScriptStore(c, i)

\* the reset interception and the chat operations
InitReset == InitOf({"reset"}, MaxDepth)
NextReset == HostSteps \/ ResetSteps \/ TrampolineSteps
SpecReset == InitReset /\ [][NextReset]_vars

\* hookAndReset with resets asked for from inside its callbacks
InitReentry == InitOf({"reset"}, MaxDepth)
NextReentry ==
  \/ HostCall("resetGame", NoRef)
  \/ HostDirect("resetGame", NoRef)
  \/ hookAndReset_enter
  \/ \E res \in CbResults : hookAndReset_pre(res)
  \/ hookAndReset_orig
  \/ \E res \in CbResults : hookAndReset_post(res)
  \/ host_reset_call
  \/ host_reset_return
SpecReentry == InitReentry /\ [][NextReentry]_vars

\* the scoped removals of all the API operations, nested MaxDepth deep
InitScope == InitOf(Groups, MaxDepth)
NextScope == HostSteps \/ ResetSteps \/ TrampolineSteps \/ EntitySteps
SpecScope == InitScope /\ [][NextScope]_vars

\* the entity operations with the side storage
Init == InitOf(EntityGroups, MaxNest)
Next == HostSteps \/ TrampolineSteps \/ EntitySteps \/ TableSteps
Spec == Init /\ [][Next]_vars

\* script code alone, at top level, telling the sol::table containers apart
InitTables == InitWith(EntityGroups, MaxNest, TRUE)
NextTables == EntitySteps \/ TableSteps
SpecTables == InitTables /\ [][NextTables]_vars

\* ------------------------------------------------------- the proxy layer
\* the categories with a getByIndex
ProxyCats == {"itemTypes", "items", "vehicles", "accounts", "players",
              "humans", "rigidBodies", "bonds", "streets", "intersections"}
\* the categories whose getByIndex tests against a live count
\* (*Engine::numStreets, *Engine::numStreetIntersections)
DenseCats == {"streets", "intersections"}
\* the categories whose getAll / getCount test the active flag
FlagCats == {"players", "humans", "items", "vehicles", "rigidBodies", "bonds"}
\* maxNumberOf...: the fixed capacity of a category's array
Capacity(c) == NSlots
\* unsigned int idx: what script code may pass
Indexes == 0 .. (NSlots + 1)

\* a proxy is the address of the record: Engine::items is an array of
\* records of sizeof(Item) bytes
nullptr == 0
Base(c) == IF c \in {"players", "accounts"} THEN 64 ELSE 128
SizeOf(c) == IF c \in {"players", "humans"} THEN 4 ELSE 3
AddressOf(c, i) == Base(c) + i * SizeOf(c)

\* faulty variant of getIndex: the byte offset is not divided by the size
getIndex_bytes(c, p) == p - Base(c)

\* ((uintptr_t)this - (uintptr_t)Engine::items) / sizeof(*this)
getIndex(c, p) == (p - Base(c)) \div SizeOf(c)

\* what getByIndex of category c tests idx against, n being the live count
Bound(c, n) == IF c \in DenseCats THEN n ELSE Capacity(c)

\* X::getByIndex(self, idx) with the live count at n
Proxy_getByIndex(c, idx, n) ==
  /\ ScriptCtx
  /\ done' = IF idx >= Bound(c, n)
             THEN [Frame("api", "getByIndex", "done", idx) EXCEPT
                     !.cat = c, !.aux = n, !.ev = <<"throw">>]
             ELSE [Frame("api", "getByIndex", "done", idx) EXCEPT
                     !.cat = c, !.aux = n, !.r = AddressOf(c, idx)]
  /\ UNCHANGED <<Registry, Extra, installed, stack, Entities, dataTables>>

\* X::getIndex() of the proxy getByIndex gave for idx
Proxy_getIndex(c, idx) ==
  /\ ScriptCtx
  /\ idx < Capacity(c)
  /\ done' = [Frame("api", "getIndex", "done", idx) EXCEPT
                !.cat = c, !.aux = AddressOf(c, idx),
                !.r = getIndex(c, AddressOf(c, idx))]
  /\ UNCHANGED <<Registry, Extra, installed, stack, Entities, dataTables>>

\* faulty variant of getAllFrom: inactive slots are not skipped
RECURSIVE getAllFrom_noSkip(_, _, _)
getAllFrom_noSkip(c, flags, i) ==
  IF i >= Capacity(c) THEN <<>>
  ELSE <<AddressOf(c, i)>> \o getAllFrom_noSkip(c, flags, i + 1)

\* the loop of X::getAll from slot i on: arr.add(&Engine::items[i]) for
\* every slot whose active flag is set
RECURSIVE getAllFrom(_, _, _)
getAllFrom(c, flags, i) ==
  IF i >= Capacity(c) THEN <<>>
  ELSE (IF flags[i] THEN <<AddressOf(c, i)>> ELSE <<>>)
       \o getAllFrom(c, flags, i + 1)
getAll(c, flags) == getAllFrom(c, flags, 0)

\* the loop of X::getCount from slot i on
RECURSIVE getCountFrom(_, _, _)
getCountFrom(c, flags, i) ==
  IF i >= Capacity(c) THEN 0
  ELSE (IF flags[i] THEN 1 ELSE 0) + getCountFrom(c, flags, i + 1)
getCount(c, flags) == getCountFrom(c, flags, 0)

\* X::getAll() and X::getCount() called in one state in which the active
\* flags of the category are `flags`
Proxy_getAll(c, flags) ==
  /\ ScriptCtx
  /\ c \in Cats => flags = active[c]
  /\ done' = [Frame("api", "getAll", "done", NoRef) EXCEPT
                !.cat = c, !.flags = {i \in Slots : flags[i]},
                !.ev = getAll(c, flags), !.r = getCount(c, flags)]
  /\ UNCHANGED <<Registry, Extra, installed, stack, Entities, dataTables>>

\* the relationship accessors: the category they refer to, and whether
\* they test the stored index against -1
Accessors ==
  [ Player_getHuman           |-> [to |-> "humans",        tests |-> TRUE],
    Player_getAccount         |-> [to |-> "accounts",      tests |-> FALSE],
    Human_getPlayer           |-> [to |-> "players",       tests |-> TRUE],
    Human_getVehicle          |-> [to |-> "vehicles",      tests |-> TRUE],
    Item_getGrenadePrimer     |-> [to |-> "players",       tests |-> TRUE],
    Item_getParentHuman       |-> [to |-> "humans",        tests |-> TRUE],
    Item_getParentItem        |-> [to |-> "items",         tests |-> TRUE],
    Item_getRigidBody         |-> [to |-> "rigidBodies",   tests |-> FALSE],
    Vehicle_getLastDriver     |-> [to |-> "players",       tests |-> TRUE],
    Vehicle_getRigidBody      |-> [to |-> "rigidBodies",   tests |-> FALSE],
    Bond_getBody              |-> [to |-> "rigidBodies",   tests |-> FALSE],
    Bond_getOtherBody         |-> [to |-> "rigidBodies",   tests |-> FALSE],
    Street_getIntersectionA   |-> [to |-> "intersections", tests |-> FALSE],
    Street_getIntersectionB   |-> [to |-> "intersections", tests |-> FALSE],
    StreetIntersection_getStreetEast |-> [to |-> "streets", tests |-> TRUE] ]

\* what accessor acc yields when the field it reads holds ref
Accessor(acc, ref) ==
  IF Accessors[acc].tests /\ ref = NoRef THEN nullptr
  ELSE AddressOf(Accessors[acc].to, ref)

\* accessor acc called on a record whose field holds ref
Proxy_accessor(acc, ref) ==
  /\ ScriptCtx
  /\ done' = [Frame("api", acc, "done", ref) EXCEPT
                !.cat = Accessors[acc].to, !.r = Accessor(acc, ref)]
  /\ UNCHANGED <<Registry, Extra, installed, stack, Entities, dataTables>>

\* the proxy layer, over every setting of the active flags of the players
\* and the items
InitProxy ==
  /\ group = "items"
  /\ limit = 0
  /\ track = FALSE
  /\ alloc = 0
  /\ held = [c \in Cats |-> [i \in Slots |-> 0]]
  /\ accountID = [i \in Slots |-> 0]
  /\ HttpInit
  /\ accounts = [i \in Slots |-> [subRosaID |-> 0, phoneNumber |-> 0]]
  /\ installed = [h \in Hooks |-> TRUE]
  /\ enabledKeys = [h \in Hooks |-> h \in GroupHooks(group)]
  /\ hookRun = TRUE
  /\ stack = <<>>
  /\ active \in {a \in [Cats -> [Slots -> BOOLEAN]] :
                   \A c \in Cats \ {"players", "items"} :
                     \A i \in Slots : ~a[c][i]}
  /\ dataTables = [c \in Cats |-> [i \in Slots |-> Null]]
  /\ humanID = [i \in Slots |-> NoRef]
  /\ playerID = [i \in Slots |-> NoRef]
  /\ done = NoDone
NextProxy ==
  \/ \E c \in ProxyCats : \E idx \in Indexes : \E n \in 0 .. NSlots :
       Proxy_getByIndex(c, idx, n)
  \/ \E c \in ProxyCats : \E idx \in Indexes : Proxy_getIndex(c, idx)
  \/ \E c \in FlagCats : \E flags \in [Slots -> BOOLEAN] :
       Proxy_getAll(c, flags)
  \/ \E acc \in DOMAIN Accessors : \E ref \in Slots \cup {NoRef} :
       Proxy_accessor(acc, ref)
SpecProxy == InitProxy /\ [][NextProxy]_vars

\* ---------------------------------------------------- Player::setAccount
\* what script code may pass for the Account*: nil, or an account proxy
AccountArgs == {nullptr} \cup {AddressOf("accounts", i) : i \in Slots}

\* faulty variant of Player_setAccount: nil unlinks the account first
Player_setAccount_unlinks(p, account) ==
  /\ ScriptCtx
  /\ "players" \in GroupCats(group)
  /\ IF account = nullptr
     THEN /\ accountID' = [accountID EXCEPT ![p] = NoRef]
          /\ done' = [Frame("api", "Player_setAccount", "done", p) EXCEPT
                        !.aux = account, !.ev = <<"throw">>]
     ELSE /\ accountID' = [accountID EXCEPT ![p] = getIndex("accounts", account)]
          /\ done' = [Frame("api", "Player_setAccount", "done", p) EXCEPT
                        !.aux = account]
  /\ UNCHANGED <<Registry, track, alloc, held, Http, accounts, installed, stack,
                 Entities,
                 dataTables>>

\* Player::setAccount(account) on player p
Player_setAccount(p, account) ==
  /\ ScriptCtx
  /\ "players" \in GroupCats(group)
  /\ IF account = nullptr
     THEN /\ accountID' = accountID
          /\ done' = [Frame("api", "Player_setAccount", "done", p) EXCEPT
                        !.aux = account, !.ev = <<"throw">>]
     ELSE /\ accountID' = [accountID EXCEPT ![p] = getIndex("accounts", account)]
          /\ done' = [Frame("api", "Player_setAccount", "done", p) EXCEPT
                        !.aux = account]
  /\ UNCHANGED <<Registry, track, alloc, held, Http, accounts, installed, stack,
                 Entities,
                 dataTables>>

\* the operations that throw on a nil argument, with the state they could
\* damage
InitErrors == InitOf({"items", "players"}, MaxNest)
NextErrors ==
  \/ \E p \in Slots : \E account \in AccountArgs : Player_setAccount(p, account)
  \/ items_createVel
  \/ items_createVel_return
  \/ items_createVel_nil
  \/ TableSteps
SpecErrors == InitErrors /\ [][NextErrors]_vars

\* ------------------------------------------- hook::enable, hook::disable
\* An event name is a string; it is kept as its pieces, "Post" being the
\* four characters the prefix test looks for.
NamePieces == {"Post", "ResetGame", "CreateItem", "Nope"}
Names == UNION {[1 .. n -> NamePieces] : n \in 0 .. MaxNameLen}

\* Hooks::enableNames: the catalog's names, each with its key in enabledKeys
enableNames == {<<h>> : h \in Hooks}
KeyOf(name) == name[1]

\* faulty variant of withoutPostPrefix: the name is looked up as it is
withoutPostPrefix_kept(name) == name

\* if (name.rfind("Post", 0) == 0) return name.substr(4); return name;
withoutPostPrefix(name) ==
  IF Len(name) >= 1 /\ name[1] = "Post" THEN Tail(name) ELSE name

\* hook::enable(name) for on = TRUE, hook::disable(name) for on = FALSE
hook_set(op, name, on) ==
  /\ ScriptCtx
  /\ LET search == withoutPostPrefix(name)
     IN IF search \in enableNames
        THEN /\ enabledKeys' = [enabledKeys EXCEPT ![KeyOf(search)] = on]
             /\ done' = [Frame("api", op, "done", NoRef) EXCEPT
                           !.ev = name, !.r = 1]
        ELSE /\ enabledKeys' = enabledKeys
             /\ done' = [Frame("api", op, "done", NoRef) EXCEPT
                           !.ev = name, !.r = 0]
  /\ UNCHANGED <<group, limit, hookRun, Extra, installed, stack, Entities,
                 dataTables>>
hook_enable(name) == hook_set("hook_enable", name, TRUE)
hook_disable(name) == hook_set("hook_disable", name, FALSE)

\* the registry alone, from every setting of the two reset-family flags
InitHooks == InitOf({"reset"}, 0)
NextHooks ==
  \/ \E name \in Names : hook_enable(name)
  \/ \E name \in Names : hook_disable(name)
SpecHooks == InitHooks /\ [][NextHooks]_vars

\* ------------------------------------------------------------ hook::clear
\* faulty variant of hook_clear: the loop starts one entry late
hook_clear_late ==
  /\ ScriptCtx
  /\ enabledKeys' = [h \in Hooks |-> h = "ResetGame" /\ enabledKeys[h]]
  /\ done' = [Frame("api", "hook_clear", "done", NoRef) EXCEPT
                !.flags = {h \in Hooks : enabledKeys[h]}]
  /\ UNCHANGED <<group, limit, hookRun, Extra, installed, stack, Entities,
                 dataTables>>

\* for (i = 0; i < Hooks::EnableKeys::SIZE; i++) enabledKeys[i] = false
hook_clear ==
  /\ ScriptCtx
  /\ enabledKeys' = [h \in Hooks |-> FALSE]
  /\ done' = [Frame("api", "hook_clear", "done", NoRef) EXCEPT
                !.flags = {h \in Hooks : enabledKeys[h]}]
  /\ UNCHANGED <<group, limit, hookRun, Extra, installed, stack, Entities,
                 dataTables>>

\* the registry operations and the resets the host starts, the operations
\* called at top level or from the reset's callbacks
InitClear == InitOf({"reset"}, MaxNest)
NextClear ==
  \/ \E name \in Names : hook_enable(name)
  \/ \E name \in Names : hook_disable(name)
  \/ hook_clear
  \/ HostCall("resetGame", NoRef)
  \/ hookAndReset_enter
  \/ \E res \in CbResults : hookAndReset_pre(res)
  \/ hookAndReset_orig
  \/ \E res \in CbResults : hookAndReset_post(res)
SpecClear == InitClear /\ [][NextClear]_vars

\* ============================================================ HTTP worker
\* Two threads: the main thread, which runs the script (l_http_get,
\* l_http_post, the pickup of responses, the environment reset), and
\* HTTPThread.  A std::mutex is taken by a step that is enabled only while the
\* mutex is free.
HttpRest == <<installed, stack, done, dataTables, Entities, Registry,
              track, alloc, held, accountID, accounts>>
Issued == {c \in Callbacks :
             \/ answered[c] > 0
             \/ script.req.callback = c
             \/ worker.req.callback = c
             \/ \E i \in 1 .. Len(requestQueue) : requestQueue[i].callback = c}
ScriptIdle == script.pc = "idle"

\* l_http_get / l_http_post: build the LuaHTTPRequest (the callback belongs to
\* the current environment), then come to the lock_guard.
l_http_request(type, c) ==
  /\ ScriptIdle
  /\ c \notin Issued
  /\ \A d \in Callbacks : d < c => d \in Issued
  /\ script' = [pc |-> "guard", req |-> [callback |-> c, type |-> type, env |-> env]]
  /\ UNCHANGED <<requestQueue, responseQueue, stateResetMutex, requestQueueMutex,
                 responseQueueMutex, worker, env, answered, HttpRest>>
l_http_get(c) == l_http_request("get", c)
l_http_post(c) == l_http_request("post", c)
\* std::lock_guard<std::mutex> guard(requestQueueMutex)
l_http_guard ==
  /\ script.pc = "guard"
  /\ requestQueueMutex = Free
  /\ requestQueueMutex' = "script"
  /\ script' = [script EXCEPT !.pc = "push"]
  /\ UNCHANGED <<requestQueue, responseQueue, stateResetMutex,
                 responseQueueMutex, worker, env, answered, HttpRest>>
\* requestQueue.push(request); the guard goes out of scope
l_http_push ==
  /\ script.pc = "push"
  /\ requestQueue' = Append(requestQueue, script.req)
  /\ requestQueueMutex' = Free
  /\ script' = [pc |-> "idle", req |-> NoRequest]
  /\ UNCHANGED <<responseQueue, stateResetMutex, responseQueueMutex, worker,
                 env, answered, HttpRest>>

\* l_http_getSync / l_http_postSync: the exchange runs on the main thread,
\* with no lock taken, and its result goes back to the script.
l_http_sync ==
  /\ ScriptIdle
  /\ script' = [script EXCEPT !.pc = "sync"]
  /\ UNCHANGED <<requestQueue, responseQueue, stateResetMutex, requestQueueMutex,
                 responseQueueMutex, worker, env, answered, HttpRest>>
l_http_sync_return ==
  /\ script.pc = "sync"
  /\ script' = [script EXCEPT !.pc = "idle"]
  /\ UNCHANGED <<requestQueue, responseQueue, stateResetMutex, requestQueueMutex,
                 responseQueueMutex, worker, env, answered, HttpRest>>

\* The main thread picks responses up: under the response-queue lock it tests
\* the queue and pops one entry.
poll_guard ==
  /\ ScriptIdle
  /\ responseQueueMutex = Free
  /\ responseQueueMutex' = "script"
  /\ script' = [script EXCEPT !.pc = "poll"]
  /\ UNCHANGED <<requestQueue, responseQueue, stateResetMutex,
                 requestQueueMutex, worker, env, answered, HttpRest>>
poll_pop ==
  /\ script.pc = "poll"
  /\ responseQueue' = IF responseQueue = <<>> THEN <<>> ELSE Tail(responseQueue)
  /\ responseQueueMutex' = Free
  /\ script' = [script EXCEPT !.pc = "idle"]
  /\ UNCHANGED <<requestQueue, stateResetMutex, requestQueueMutex, worker, env,
                 answered, HttpRest>>

\* The environment reset: it takes the state-reset lock, tears the scripting
\* environment down and builds the next one, and lets the lock go.
reset_begin ==
  /\ ScriptIdle
  /\ env < MaxResets
  /\ script' = [script EXCEPT !.pc = "reset"]
  /\ UNCHANGED <<requestQueue, responseQueue, stateResetMutex, requestQueueMutex,
                 responseQueueMutex, worker, env, answered, HttpRest>>
reset_guard ==
  /\ script.pc = "reset"
  /\ stateResetMutex = Free
  /\ stateResetMutex' = "script"
  /\ script' = [script EXCEPT !.pc = "rebuild"]
  /\ UNCHANGED <<requestQueue, responseQueue, requestQueueMutex,
                 responseQueueMutex, worker, env, answered, HttpRest>>
reset_rebuild ==
  /\ script.pc = "rebuild"
  /\ env' = env + 1
  /\ stateResetMutex' = Free
  /\ script' = [script EXCEPT !.pc = "idle"]
  /\ UNCHANGED <<requestQueue, responseQueue, requestQueueMutex,
                 responseQueueMutex, worker, answered, HttpRest>>
\* HTTPThread, one iteration of the inner loop.  The lock_guard on
\* stateResetMutex is the first statement of the loop body and lives until the
\* body ends: at the break when the queue is empty, or after
\* handleHTTPResponse has returned.
HTTPThread_guard ==
  /\ worker.pc = "loop"
  /\ stateResetMutex = Free
  /\ stateResetMutex' = "worker"
  /\ worker' = [worker EXCEPT !.pc = "lock"]
  /\ UNCHANGED <<requestQueue, responseQueue, requestQueueMutex,
                 responseQueueMutex, script, env, answered, HttpRest>>
\* requestQueueMutex.lock()
HTTPThread_lock ==
  /\ worker.pc = "lock"
  /\ requestQueueMutex = Free
  /\ requestQueueMutex' = "worker"
  /\ worker' = [worker EXCEPT !.pc = "test"]
  /\ UNCHANGED <<requestQueue, responseQueue, stateResetMutex,
                 responseQueueMutex, script, env, answered, HttpRest>>
\* (changed) the request-queue lock is let go only when the iteration ends
HTTPThread_dequeue_locked ==
  /\ worker.pc = "test"
  /\ requestQueue # <<>>
  /\ worker' = [worker EXCEPT !.pc = "call", !.req = Head(requestQueue)]
  /\ requestQueue' = Tail(requestQueue)
  /\ UNCHANGED <<responseQueue, stateResetMutex, requestQueueMutex,
                 responseQueueMutex, script, env, answered, HttpRest>>
\* (changed) the break on an empty queue forgets requestQueueMutex.unlock()
HTTPThread_dequeue_noUnlock ==
  /\ worker.pc = "test"
  /\ IF requestQueue = <<>>
     THEN /\ stateResetMutex' = Free
          /\ worker' = [worker EXCEPT !.pc = "sleep"]
          /\ UNCHANGED <<requestQueue, requestQueueMutex>>
     ELSE /\ worker' = [worker EXCEPT !.pc = "call", !.req = Head(requestQueue)]
          /\ requestQueue' = Tail(requestQueue)
          /\ requestQueueMutex' = Free
          /\ UNCHANGED stateResetMutex
  /\ UNCHANGED <<responseQueue, responseQueueMutex, script, env, answered,
                 HttpRest>>
\* if (requestQueue.empty()) { unlock; break; }  front(); pop(); unlock
HTTPThread_dequeue ==
  /\ worker.pc = "test"
  /\ requestQueueMutex' = Free
  /\ IF requestQueue = <<>>
     THEN /\ stateResetMutex' = Free
          /\ worker' = [worker EXCEPT !.pc = "sleep"]
          /\ UNCHANGED requestQueue
     ELSE /\ worker' = [worker EXCEPT !.pc = "call", !.req = Head(requestQueue)]
          /\ requestQueue' = Tail(requestQueue)
          /\ UNCHANGED stateResetMutex
  /\ UNCHANGED <<responseQueue, responseQueueMutex, script, env, answered,
                 HttpRest>>

\* (changed) an error status is reported as a failed exchange
handleHTTPResponse_statusChecked(req, res) ==
  IF res.ok /\ res.status < 400
  THEN [callback |-> req.callback, success |-> TRUE, status |-> res.status,
        body |-> res.body, headers |-> res.headers]
  ELSE [callback |-> req.callback, success |-> FALSE, status |-> Null,
        body |-> Null, headers |-> Null]
\* handleHTTPResponse, the entry it builds:
\* LuaHTTPResponse{req.callback, true, status, body, headers} if (res),
\* LuaHTTPResponse{req.callback, false} otherwise
handleHTTPResponse(req, res) ==
  IF res.ok
  THEN [callback |-> req.callback, success |-> TRUE, status |-> res.status,
        body |-> res.body, headers |-> res.headers]
  ELSE [callback |-> req.callback, success |-> FALSE, status |-> Null,
        body |-> Null, headers |-> Null]

\* client.Get / client.Post returns (the timeouts make it return), and
\* handleHTTPResponse builds the entry
HTTPThread_call(res) ==
  /\ worker.pc = "call"
  /\ worker' = [worker EXCEPT !.pc = "handle", !.res = res,
                              !.response = handleHTTPResponse(worker.req, res)]
  /\ UNCHANGED <<requestQueue, responseQueue, stateResetMutex, requestQueueMutex,
                 responseQueueMutex, script, env, answered, HttpRest>>
\* std::lock_guard<std::mutex> guard(responseQueueMutex)
handleHTTPResponse_guard ==
  /\ worker.pc = "handle"
  /\ responseQueueMutex = Free
  /\ responseQueueMutex' = "worker"
  /\ worker' = [worker EXCEPT !.pc = "push"]
  /\ UNCHANGED <<requestQueue, responseQueue, stateResetMutex,
                 requestQueueMutex, script, env, answered, HttpRest>>
\* (changed) a failed exchange leaves no entry
handleHTTPResponse_push_okOnly ==
  /\ worker.pc = "push"
  /\ IF worker.res.ok
     THEN /\ responseQueue' = Append(responseQueue, worker.response)
          /\ answered' = [answered EXCEPT ![worker.req.callback] = @ + 1]
     ELSE UNCHANGED <<responseQueue, answered>>
  /\ responseQueueMutex' = Free
  /\ stateResetMutex' = Free
  /\ worker' = [pc |-> "loop", req |-> NoRequest, res |-> NoResult,
                response |-> NoResponse]
  /\ UNCHANGED <<requestQueue, requestQueueMutex, script, env, HttpRest>>
\* responseQueue.push(response); both guards go out of scope and the loop
\* body ends
handleHTTPResponse_push ==
  /\ worker.pc = "push"
  /\ responseQueue' = Append(responseQueue, worker.response)
  /\ answered' = [answered EXCEPT ![worker.req.callback] = @ + 1]
  /\ responseQueueMutex' = Free
  /\ stateResetMutex' = Free
  /\ worker' = [pc |-> "loop", req |-> NoRequest, res |-> NoResult,
                response |-> NoResponse]
  /\ UNCHANGED <<requestQueue, requestQueueMutex, script, env, HttpRest>>
\* std::this_thread::sleep_for(16ms)
HTTPThread_sleep ==
  /\ worker.pc = "sleep"
  /\ worker' = [worker EXCEPT !.pc = "loop"]
  /\ UNCHANGED <<requestQueue, responseQueue, stateResetMutex, requestQueueMutex,
                 responseQueueMutex, script, env, answered, HttpRest>>

WorkerSteps ==
  \/ HTTPThread_guard
  \/ HTTPThread_lock
  \/ HTTPThread_dequeue
  \/ \E res \in Results : HTTPThread_call(res)
  \/ handleHTTPResponse_guard
  \/ handleHTTPResponse_push
  \/ HTTPThread_sleep
ScriptSteps ==
  \/ \E c \in Callbacks : l_http_get(c) \/ l_http_post(c)
  \/ l_http_guard
  \/ l_http_push
  \/ l_http_sync
  \/ l_http_sync_return
  \/ poll_guard
  \/ poll_pop
  \/ reset_begin
  \/ reset_guard
  \/ reset_rebuild
InitHTTP == InitOf({"reset"}, 0) /\ enabledKeys = [h \in Hooks |-> FALSE] /\ hookRun
NextHTTP == WorkerSteps \/ ScriptSteps
SpecHTTP == InitHTTP /\ [][NextHTTP]_vars
\* The scheduler runs both threads for ever and a thread that keeps asking
\* for a mutex gets it once it is free often enough.
SpecHTTPFair ==
  /\ InitHTTP
  /\ [][NextHTTP]_vars
  /\ WF_vars(ScriptSteps)
  /\ SF_vars(HTTPThread_guard) /\ SF_vars(HTTPThread_lock)
  /\ SF_vars(handleHTTPResponse_guard)
  /\ WF_vars(HTTPThread_dequeue) /\ WF_vars(\E res \in Results : HTTPThread_call(res))
  /\ WF_vars(handleHTTPResponse_push) /\ WF_vars(HTTPThread_sleep)

\* =============================================================== accounts
\* Engine::accounts has maxNumberOfAccounts slots.  The three scans below
\* index it with no upper limit, so what they find past the last slot is
\* whatever the memory there holds: MaxPast bounds how many further non-zero
\* subRosaID fields a run lets them find before a zero one, or before an
\* address that cannot be read.
MaxPast == 1
maxNumberOfAccounts == NSlots
Phones == {0, 1}
AccountValues == [subRosaID : {0, 1}, phoneNumber : Phones]
\* stands for a slot at an address that cannot be read
Unreadable == [subRosaID |-> 0 - 1, phoneNumber |-> 0]
Ends == {"zero", "fault"}
\* the memory a scan walks: the array, then k slots of garbage, then the end
Memory(k, end) ==
  [i \in 0 .. (maxNumberOfAccounts + k) |->
     IF i < maxNumberOfAccounts THEN accounts[i]
     ELSE IF i < maxNumberOfAccounts + k THEN [subRosaID |-> 1, phoneNumber |-> 0]
     ELSE IF end = "zero" THEN [subRosaID |-> 0, phoneNumber |-> 0]
     ELSE Unreadable]

\* while (true) { acc = &accounts[count]; if (!acc->subRosaID) break; count++; }
\* gives the index the loop stops at; stopped |-> FALSE: the read faulted
RECURSIVE accounts_scan(_, _)
accounts_scan(mem, count) ==
  IF mem[count] = Unreadable THEN [at |-> count, stopped |-> FALSE]
  ELSE IF mem[count].subRosaID = 0 THEN [at |-> count, stopped |-> TRUE]
  ELSE accounts_scan(mem, count + 1)
\* for (i = 0;; i++) { if (!acc->subRosaID) break; if (phoneNumber == phone) return acc; }
RECURSIVE accounts_find(_, _, _)
accounts_find(mem, phone, i) ==
  IF mem[i] = Unreadable THEN [at |-> i, stopped |-> FALSE, found |-> FALSE]
  ELSE IF mem[i].subRosaID = 0 THEN [at |-> i, stopped |-> TRUE, found |-> FALSE]
  ELSE IF mem[i].phoneNumber = phone THEN [at |-> i, stopped |-> TRUE, found |-> TRUE]
  ELSE accounts_find(mem, phone, i + 1)
AccountsRest == <<Registry, track, alloc, held, accountID, Http, accounts,
                  installed, stack, Entities, dataTables>>
\* done.r: the count / the index of the account found (NoRef: none);
\* done.aux: the highest index read; done.flags: the indexes put in the
\* table; done.ev: <<"fault">> when the scan ran into unreadable memory
accounts_getCount(k, end) ==
  /\ stack = <<>>
  /\ LET s == accounts_scan(Memory(k, end), 0) IN
     done' = [Frame("api", "accounts_getCount", "done", NoRef) EXCEPT
                !.r = IF s.stopped THEN s.at ELSE NoRef,
                !.aux = s.at,
                !.ev = IF s.stopped THEN <<>> ELSE <<"fault">>]
  /\ UNCHANGED AccountsRest
accounts_getAll(k, end) ==
  /\ stack = <<>>
  /\ LET s == accounts_scan(Memory(k, end), 0) IN
     done' = [Frame("api", "accounts_getAll", "done", NoRef) EXCEPT
                !.r = IF s.stopped THEN s.at ELSE NoRef,
                !.flags = IF s.stopped THEN 0 .. (s.at - 1) ELSE {},
                !.aux = s.at,
                !.ev = IF s.stopped THEN <<>> ELSE <<"fault">>]
  /\ UNCHANGED AccountsRest
accounts_getByPhone(phone, k, end) ==
  /\ stack = <<>>
  /\ LET s == accounts_find(Memory(k, end), phone, 0) IN
     done' = [Frame("api", "accounts_getByPhone", "done", phone) EXCEPT
                !.r = IF s.found THEN s.at ELSE NoRef,
                !.aux = s.at,
                !.ev = IF s.stopped THEN <<>> ELSE <<"fault">>]
  /\ UNCHANGED AccountsRest
\* over every content of the accounts array
InitAccounts ==
  /\ group = "players"
  /\ limit = 0
  /\ track = FALSE
  /\ alloc = 0
  /\ held = [c \in Cats |-> [i \in Slots |-> 0]]
  /\ accountID = [i \in Slots |-> 0]
  /\ HttpInit
  /\ accounts \in [Slots -> AccountValues]
  /\ installed = [h \in Hooks |-> TRUE]
  /\ enabledKeys = [h \in Hooks |-> h \in GroupHooks(group)]
  /\ hookRun = TRUE
  /\ stack = <<>>
  /\ active = [c \in Cats |-> [i \in Slots |-> FALSE]]
  /\ dataTables = [c \in Cats |-> [i \in Slots |-> Null]]
  /\ humanID = [i \in Slots |-> NoRef]
  /\ playerID = [i \in Slots |-> NoRef]
  /\ done = NoDone
NextAccounts ==
  \/ \E k \in 0 .. MaxPast : \E end \in Ends : accounts_getCount(k, end)
  \/ \E k \in 0 .. MaxPast : \E end \in Ends : accounts_getAll(k, end)
  \/ \E phone \in Phones : \E k \in 0 .. MaxPast : \E end \in Ends :
       accounts_getByPhone(phone, k, end)
SpecAccounts == InitAccounts /\ [][NextAccounts]_vars

\* ====================================================== what is checked
\* the activations on the stack, and the one that has just returned
Frames == {stack[i] : i \in DOMAIN stack} \cup {done}
IsLog(e) == e = "log"
NotLog(e) == e # "log"
NoLog(ev) == SelectSeq(ev, NotLog)
IsPrefix(s, t) == Len(s) <= Len(t) /\ SubSeq(t, 1, Len(s)) = s
Count(ev, e) == Cardinality({j \in DOMAIN ev : ev[j] = e})
IsReset(fr) == fr.k = "tramp" /\ fr.name = "resetGame"
\* the stack's top frame is a trampoline inside its callback for host
\* function f
InCallbackOf(f) ==
  IF stack = <<>> THEN FALSE
  ELSE Top.k = "tramp" /\ Top.pc \in {"pre", "post"} /\ Top.name = f
CreateOps == {"items_createVel", "vehicles_create", "vehicles_createVel",
              "players_createBot", "humans_create"}
RemoveOps == {"Player_remove", "Human_remove", "Item_remove", "Vehicle_remove"}
Returned(ops) == done.k = "api" /\ done.pc = "done" /\ done.name \in ops
CatOf(fr) == HostFns[fr.fn].cat

\* ------------------------------------------------------------------- C1
\* C1: a hookAndReset activation with ResetGame enabled and hook.run present
\* whose callback did not suppress does, in this order and nothing else
\* but logging: the ResetGame callback, the original reset once (and while it
\* is inside the original the reset redirect is not installed), the
\* PostResetGame callback; when it returns it has done all three.  No
\* activation of hookAndReset runs PostResetGame without having run the
\* original before.
C1_ResetOrder ==
  \A fr \in Frames :
    IsReset(fr) =>
      /\ (enabledKeys["ResetGame"] /\ hookRun /\ fr.res # "truthy") =>
           /\ IsPrefix(NoLog(fr.ev), <<"pre", "orig", "post">>)
           /\ (fr.pc = "done" => NoLog(fr.ev) = <<"pre", "orig", "post">>)
           /\ (fr.pc = "orig" => ~installed["ResetGame"])
      /\ \A j \in DOMAIN fr.ev :
           fr.ev[j] = "post" => \E k \in 1 .. (j - 1) : fr.ev[k] = "orig"
\* a reset whose callback returned a falsy value has returned
C1_Witness ==
  /\ IsReset(done) /\ done.pc = "done"
  /\ enabledKeys["ResetGame"] /\ hookRun
  /\ done.res = "falsy"
  /\ done.ev = <<"pre", "orig", "post">>

\* ------------------------------------------------------------------- C2
\* C2: a hookAndReset activation with ResetGame enabled whose callback
\* returned a truthy value returns having run the callback and nothing else:
\* neither the original reset nor PostResetGame.
C2_Suppressed ==
  \A fr \in Frames :
    (IsReset(fr) /\ enabledKeys["ResetGame"] /\ fr.res = "truthy") =>
      /\ fr.pc = "done"
      /\ fr.ev = <<"pre">>
C2_Witness ==
  /\ IsReset(done) /\ done.pc = "done"
  /\ enabledKeys["ResetGame"] /\ hookRun
  /\ done.res = "truthy"

\* ------------------------------------------------------------------- C3
\* C3: with ResetGame disabled, or enabled with no hook.run, an activation
\* of hookAndReset runs no callback, goes straight into the original reset
\* and returns having run it exactly once.
C3_NoCallback ==
  \A fr \in Frames :
    (IsReset(fr) /\ (~enabledKeys["ResetGame"] \/ ~hookRun)) =>
      /\ fr.pc \in {"enter", "orig", "done"}
      /\ fr.ev = IF fr.pc = "enter" THEN <<>> ELSE <<"orig">>
      /\ fr.res = "none" /\ fr.res2 = "none"
\* enabled, but there is no hook.run
C3_Witness ==
  /\ IsReset(done) /\ done.pc = "done"
  /\ enabledKeys["ResetGame"] /\ ~hookRun
  /\ done.ev = <<"orig">>

\* ------------------------------------------------------------------- C4
\* C4: when the ResetGame callback fails, hookAndReset logs it and goes on
\* into the original reset, which it runs exactly once; when the
\* PostResetGame callback fails, hookAndReset logs it and returns to its
\* caller, which goes on where it was.
C4_CallbackFails ==
  \A fr \in Frames :
    IsReset(fr) =>
      /\ fr.res = "error" =>
           /\ IsPrefix(<<"pre", "log", "orig">>, fr.ev)
           /\ Count(fr.ev, "orig") = 1
           /\ fr.pc \in {"orig", "post", "done"}
      /\ fr.pc = "done" /\ fr.res # "truthy" /\ fr.func =>
           fr.ev = <<"pre">> \o (IF fr.res = "error" THEN <<"log">> ELSE <<>>)
                   \o <<"orig", "post">>
                   \o (IF fr.res2 = "error" THEN <<"log">> ELSE <<>>)
      /\ fr.res2 = "error" =>
           /\ fr = done /\ fr.pc = "done"
           /\ Count(fr.ev, "orig") = 1
           /\ IF stack = <<>> THEN TRUE ELSE Top.pc = "orig"
\* both callbacks of one reset failed
C4_Witness ==
  /\ IsReset(done) /\ done.pc = "done"
  /\ done.res = "error" /\ done.res2 = "error"
  /\ done.ev = <<"pre", "log", "orig", "post", "log">>

\* ------------------------------------------------------------------- C5
\* C5: when an API operation has ended, by a return or by a throw, every
\* redirect that one of its scoped removals removed is installed.
C5_ScopeRestores ==
  (done.k = "api" /\ done.pc = "done") =>
    \A h \in done.took : installed[h]
\* items::createVel threw on a nil type after removing the CreateItem redirect
C5_Witness ==
  /\ done.k = "api" /\ done.name = "items_createVel"
  /\ done.ev = <<"throw">>
  /\ done.took = {"CreateItem"}
  /\ installed["CreateItem"]

\* ------------------------------------------------------------------- C6
\* C6: a redirect is installed exactly when no activation on the stack holds
\* a scoped removal of it, and of the activations that hold one only the
\* outermost has removed it (so the exit of an inner one leaves it removed,
\* and the exit of the outermost one installs it).
C6_NestedScopes ==
  \A h \in Hooks :
    /\ installed[h] <=> (\A i \in DOMAIN stack : stack[i].hook # h)
    /\ \A i \in DOMAIN stack :
         stack[i].hook = h =>
           (stack[i].removed <=> \A j \in 1 .. (i - 1) : stack[j].hook # h)
\* an inner scoped removal has ended while an enclosing one of the same
\* redirect goes on
C6_Witness ==
  /\ done.k = "api" /\ done.pc = "done"
  /\ done.hook # NoHook /\ ~done.removed
  /\ \E i \in DOMAIN stack : stack[i].hook = done.hook /\ stack[i].removed
  /\ ~installed[done.hook]

C8_CreateClears ==
  /\ (Returned(CreateOps) /\ done.r # NoRef) =>
       dataTables[CatOf(done)][done.r] = Null
  /\ \A c \in GroupCats(group) :
       (Returned({"getDataTable"}) /\ done.had = Null) =>
         dataTables[c][done.arg] = "empty"
\* the slot's previous occupant had stored something in its data table
C8_Witness ==
  /\ Returned(CreateOps) /\ done.r # NoRef
  /\ done.had = "filled"
  /\ dataTables[CatOf(done)][done.r] = Null

\* ------------------------------------------------------------------- C9
\* C9: when Player::remove, Human::remove, Item::remove or Vehicle::remove
\* on slot i has returned, it has called the host's delete function on slot
\* i once and the side-storage entry of slot i is absent.
C9_RemoveClears ==
  Returned(RemoveOps) =>
    /\ HostFns[done.fn].kind = "delete"
    /\ done.farg = done.arg
    /\ done.ev = <<"orig">>
    /\ dataTables[CatOf(done)][done.arg] = Null
\* Vehicle::remove on a slot whose data table was populated
C9_Witness ==
  /\ Returned({"Vehicle_remove"})
  /\ done.had = "filled"
  /\ dataTables["vehicles"][done.arg] = Null

\* ------------------------------------------------------------------ C10
\* C10: when any API operation that creates or removes an entity has
\* returned, the side-storage entry of every slot it created or deleted is
\* absent: the slot items::createRope returned, and the slot of the previous
\* human that humans::create deleted, included.
C10_EveryPathClears ==
  /\ (Returned(CreateOps \cup {"items_createRope"}) /\ done.r # NoRef) =>
       dataTables[CatOf(done)][done.r] = Null
  /\ (Returned({"humans_create"}) /\ done.aux # NoRef) =>
       dataTables["humans"][done.aux] = Null
  /\ Returned(RemoveOps) => dataTables[CatOf(done)][done.arg] = Null

\* ------------------------------------------------------------------ C11
\* C11: whenever no API operation is under way, a side-storage entry exists
\* for slot N of a category if and only if slot N of that category is
\* active.  Stated here is the "only if" half: an entry exists for active
\* slots alone.
C11_EntryOnlyIfActive ==
  stack = <<>> =>
    \A c \in Cats : \A i \in Slots :
      dataTables[c][i] # Null => active[c][i]

\* ------------------------------------------------------------------ C12
\* C12: a getDataTable that finds no entry for its slot makes a new
\* container, leaves it empty and stores it for the slot; a getDataTable
\* that finds an entry returns the container the slot already held, with
\* what it contained, and leaves it stored.  Between two getDataTable calls
\* only a clear takes the slot's container away: every slot with an entry
\* holds a container made earlier, and no two slots hold the same one.
C12_SameContainer ==
  /\ (Returned({"getDataTable"}) /\ track) =>
       \A c \in GroupCats(group) :
         /\ held[c][done.arg] = done.r
         /\ done.had = Null =>
              /\ dataTables[c][done.arg] = "empty"
              /\ done.r = alloc
              /\ done.r # done.aux
         /\ done.had # Null =>
              /\ done.r = done.aux
              /\ dataTables[c][done.arg] = done.had
  /\ track =>
       \A c \in Cats : \A i \in Slots :
         dataTables[c][i] # Null =>
           /\ held[c][i] \in 1 .. alloc
           /\ \A j \in Slots \ {i} :
                dataTables[c][j] # Null => held[c][j] # held[c][i]
\* a second getDataTable on a slot whose container script code has written to
C12_Witness ==
  /\ Returned({"getDataTable"}) /\ track
  /\ done.had = "filled"
  /\ done.r = done.aux /\ done.r >= 1
  /\ \A c \in GroupCats(group) : dataTables[c][done.arg] = "filled"

\* ------------------------------------------------------------------ C13
\* C13: a getDataTable on slot i that comes right after an operation that
\* cleared the entry of slot i (a remove on i, or a create that returned i)
\* finds no entry, and returns a container made by this call, empty, which
\* is neither the one the slot held before the clear nor one that any other
\* slot holds.
C13_FreshAfterClear ==
  (Returned({"getDataTable"}) /\ track /\ done.prevSlot = done.arg) =>
    \A c \in GroupCats(group) :
      /\ done.had = Null
      /\ done.r = alloc
      /\ done.r # done.aux
      /\ dataTables[c][done.arg] = "empty"
      /\ \A j \in Slots \ {done.arg} : held[c][j] # done.r
\* the slot had a container before a remove cleared it
C13_Witness ==
  /\ Returned({"getDataTable"}) /\ track
  /\ done.prev \in {"Human_remove", "Item_remove"}
  /\ done.prevSlot = done.arg
  /\ done.aux >= 1
  /\ done.r = alloc /\ done.r # done.aux

\* ------------------------------------------------------------------ C14
\* C14: getByIndex(i) of every category, streets and intersections
\* included, throws the out-of-range error when i is at or above the
\* category's fixed capacity, and for every i below it returns the view of
\* slot i, whatever the slot's activity.
C14_GetByIndexBounds ==
  Returned({"getByIndex"}) =>
    IF done.arg >= Capacity(done.cat)
    THEN done.ev = <<"throw">>
    ELSE done.ev = <<>> /\ done.r = AddressOf(done.cat, done.arg)

\* ------------------------------------------------------------------ C15
\* C15: getIndex of the proxy that getByIndex returned for i is i, in every
\* category and whatever the active flags are.
C15_IndexRoundTrip ==
  /\ Returned({"getIndex"}) => done.r = done.arg
  /\ (Returned({"getByIndex"}) /\ done.ev = <<>>) =>
       getIndex(done.cat, done.r) = done.arg
\* the proxy of an inactive player slot other than the first
C15_Witness ==
  /\ Returned({"getIndex"}) /\ done.cat = "players"
  /\ done.arg = NSlots - 1 /\ done.arg > 0
  /\ ~active["players"][done.arg]
  /\ done.aux = AddressOf("players", done.arg)
  /\ done.r = done.arg

\* ------------------------------------------------------------------ C16
\* C16: for players, humans, items, vehicles, rigid bodies and bonds,
\* getAll() returns the proxies of exactly the slots whose active flag is
\* set, in strictly ascending slot order (so each once), and getCount() in
\* the same state equals the number of elements of getAll().
C16_GetAllActive ==
  Returned({"getAll"}) =>
    /\ {getIndex(done.cat, done.ev[j]) : j \in DOMAIN done.ev} = done.flags
    /\ \A j \in DOMAIN done.ev :
         done.ev[j] = AddressOf(done.cat, getIndex(done.cat, done.ev[j]))
    /\ \A j, k \in DOMAIN done.ev :
         j < k => getIndex(done.cat, done.ev[j]) < getIndex(done.cat, done.ev[k])
    /\ done.r = Len(done.ev)
    /\ done.cat \in Cats => done.flags = {i \in Slots : active[done.cat][i]}
\* the players, with the first slot inactive and the last one active
C16_Witness ==
  /\ Returned({"getAll"}) /\ done.cat = "players"
  /\ ~active["players"][0] /\ active["players"][NSlots - 1]
  /\ done.ev = <<AddressOf("players", NSlots - 1)>>
  /\ done.r = 1

\* ------------------------------------------------------------------ C17
\* C17: every relationship accessor, Player::getAccount, Item::getRigidBody,
\* Bond::getBody / getOtherBody and Street::getIntersectionA / B included,
\* yields no value when the stored index is -1, and otherwise the proxy of
\* the referenced category at the stored index.
C17_AccessorSentinel ==
  (done.k = "api" /\ done.name \in DOMAIN Accessors) =>
    IF done.arg = NoRef
    THEN done.r = nullptr
    ELSE done.r = AddressOf(done.cat, done.arg)

\* ------------------------------------------------------------------ C18
\* C18: Player::setAccount called with nil throws, and the step in which it
\* throws changes no accountID and nothing else; items::createVel called
\* with a nil type throws, and the step in which it throws has made no host
\* call and changes no active flag, no side-storage entry and nothing else.
C18_ThrowsBeforeMutation ==
  [][ /\ (done'.name = "Player_setAccount" /\ done'.aux = nullptr) =>
           /\ done'.ev = <<"throw">>
           /\ UNCHANGED <<accountID, Entities, dataTables, stack, installed,
                          Registry, track, alloc, held>>
      /\ (done'.name = "Player_setAccount" /\ done'.aux # nullptr) =>
           done'.ev = <<>>
      /\ (done'.name = "items_createVel" /\ done'.ev = <<"throw">>) =>
           /\ done'.fn = "none" /\ done'.r = NoRef
           /\ UNCHANGED <<accountID, Entities, dataTables, stack, installed,
                          Registry, track, alloc, held>> ]_vars
\* setAccount(nil) on a player that had been given an account other than the
\* one it started with
C18_Witness ==
  /\ Returned({"Player_setAccount"})
  /\ done.aux = nullptr /\ done.ev = <<"throw">>
  /\ accountID[done.arg] # 0

\* ------------------------------------------------------------------ C19
\* C19: Player::remove, Human::remove, Item::remove and Vehicle::remove
\* called on a slot that is not active fail with an invalid-argument error:
\* no step enters one of them, and calls the host's delete function, on a
\* slot whose active flag is clear.
C19_RemoveInactiveFails ==
  [][ ( /\ Len(stack') = Len(stack) + 1
        /\ stack'[Len(stack')].k = "api"
        /\ stack'[Len(stack')].name \in RemoveOps ) =>
          active[HostFns[stack'[Len(stack')].fn].cat][stack'[Len(stack')].arg]
    ]_vars

\* ------------------------------------------------------------------ C20
\* C20: hook::enable(name) and hook::disable(name) look the name up with one
\* leading "Post" taken off.  When that is a name of the catalog, the step
\* sets that entry's flag to true (enable) or false (disable), leaves every
\* other flag as it was and returns true; when it is not, the step returns
\* false and leaves every flag as it was.
C20_EnableDisable ==
  [][ (done'.k = "api" /\ done'.name \in {"hook_enable", "hook_disable"}) =>
        LET name == done'.ev
            stripped == IF name # <<>> /\ Head(name) = "Post"
                        THEN SubSeq(name, 2, Len(name)) ELSE name
            known == Len(stripped) = 1 /\ stripped[1] \in Hooks
        IN IF known
           THEN /\ done'.r = 1
                /\ enabledKeys'[stripped[1]] = (done'.name = "hook_enable")
                /\ \A h \in Hooks \ {stripped[1]} :
                     enabledKeys'[h] = enabledKeys[h]
           ELSE /\ done'.r = 0
                /\ enabledKeys' = enabledKeys ]_vars
\* PostResetGame was disabled while another event stays enabled
C20_Witness ==
  /\ done.k = "api" /\ done.name = "hook_disable"
  /\ done.ev = <<"Post", "ResetGame">>
  /\ done.r = 1
  /\ ~enabledKeys["ResetGame"]
  /\ enabledKeys["CreateItem"] /\ enabledKeys["EventMessage"]

\* ------------------------------------------------------------------ C21
\* C21: when hook::clear has returned, every entry of the catalog is
\* disabled, whatever was enabled before.  A hookAndReset that starts while
\* every entry is disabled goes straight into the original reset, and an
\* activation of hookAndReset that found ResetGame disabled runs the
\* original once and no callback.
C21_ClearDisablesAll ==
  /\ [](Returned({"hook_clear"}) => \A h \in Hooks : ~enabledKeys[h])
  /\ [](\A fr \in Frames :
          (IsReset(fr) /\ ~fr.func /\ fr.pc # "enter") =>
            /\ fr.pc \in {"orig", "done"}
            /\ fr.ev = <<"orig">>)
  /\ [][ ( /\ stack # <<>> /\ stack' # stack
           /\ IsReset(stack[Len(stack)]) /\ stack[Len(stack)].pc = "enter"
           /\ \A h \in Hooks : ~enabledKeys[h] ) =>
             /\ Len(stack') = Len(stack)
             /\ stack'[Len(stack')].pc = "orig"
             /\ ~stack'[Len(stack')].func
             /\ stack'[Len(stack')].ev = <<"orig">> ]_vars
\* clear has returned after events had been enabled, the reset's among them
C21_Witness ==
  /\ Returned({"hook_clear"})
  /\ {"ResetGame", "CreateItem"} \subseteq done.flags
  /\ \A h \in Hooks : ~enabledKeys[h]

\* C22 (as stated): the request-queue lock and the response-queue lock are
\* held by no thread in any state in which a network call is in progress.
C22_NoLockDuringCall ==
  (worker.pc = "call" \/ script.pc = "sync") =>
     (requestQueueMutex = Free /\ responseQueueMutex = Free)
\* C22 (amended): each queue lock is held only around one push, or one
\* emptiness test and pop, of its own queue, and the thread that is performing
\* a network call holds neither queue lock; the other thread may hold one
\* for its own queue operation meanwhile.
C22_NoLockAcrossCall ==
  /\ requestQueueMutex = "worker" <=> worker.pc = "test"
  /\ requestQueueMutex = "script" <=> script.pc = "push"
  /\ responseQueueMutex = "worker" <=> worker.pc = "push"
  /\ responseQueueMutex = "script" <=> script.pc = "poll"
  /\ worker.pc = "call" =>
       (requestQueueMutex # "worker" /\ responseQueueMutex # "worker")
  /\ script.pc = "sync" =>
       (requestQueueMutex # "script" /\ responseQueueMutex # "script")
C22_Witness ==
  /\ worker.pc = "call"
  /\ worker.req.callback = 1
  /\ requestQueueMutex = "script"
  /\ script.req.callback = 2

\* C23: the worker holds the state-reset lock from before it dequeues until
\* the response is pushed; no response is pushed while a reset is in
\* progress; and no response is pushed for a request of an environment that
\* a reset has replaced since (its callback belongs to the old environment,
\* the queue it lands on is polled by the new one).
C23_LockSpans ==
  worker.pc \in {"lock", "test", "call", "handle", "push"} =>
     stateResetMutex = "worker"
C23_NoPushDuringReset ==
  script.pc = "rebuild" => worker.pc \in {"loop", "sleep"}
C23_ResetIsolation ==
  /\ C23_LockSpans
  /\ C23_NoPushDuringReset
  /\ worker.pc \in {"handle", "push"} => worker.req.env = env

InRequestQueue(c) ==
  \E i \in 1 .. Len(requestQueue) : requestQueue[i].callback = c
\* C24: under fair scheduling and a network call that returns, every request
\* in the request queue is eventually dequeued by the worker and eventually
\* has exactly one entry pushed for it, a success or a failure entry; no
\* request is answered twice, and none leaves the request queue except into
\* the worker's hands.
C24_EveryRequestAnswered ==
  /\ \A c \in Callbacks :
       /\ InRequestQueue(c) ~> (worker.pc = "call" /\ worker.req.callback = c)
       /\ InRequestQueue(c) ~> (answered[c] = 1)
  /\ [](\A c \in Callbacks : answered[c] <= 1)
  /\ [][\A c \in Callbacks :
          /\ (InRequestQueue(c) /\ ~InRequestQueue(c)') =>
                (worker'.pc = "call" /\ worker'.req.callback = c)
          /\ answered'[c] # answered[c] =>
                /\ answered'[c] = answered[c] + 1
                /\ Len(responseQueue') = Len(responseQueue) + 1
                /\ responseQueue'[Len(responseQueue')].callback = c
                /\ responseQueue'[Len(responseQueue')].success \in BOOLEAN ]_vars
C24_Witness ==
  /\ \A c \in Callbacks : answered[c] = 1
  /\ Len(responseQueue) = 2
  /\ responseQueue[1].success # responseQueue[2].success

\* C25: the entry the worker pushes for a request carries the request's
\* callback; after a failed exchange it has success = false and no status,
\* body or headers; after an exchange that got a response, whatever its
\* status, it has success = true and that response's status, body and
\* headers.  Either way the worker goes on with its loop.
C25_FailureAsData ==
  [][ (worker.pc = "push" /\ worker'.pc # "push") =>
        LET e == responseQueue'[Len(responseQueue')] IN
        /\ Len(responseQueue') = Len(responseQueue) + 1
        /\ SubSeq(responseQueue', 1, Len(responseQueue)) = responseQueue
        /\ e.callback = worker.req.callback
        /\ e.success = worker.res.ok
        /\ ~worker.res.ok =>
              (e.status = Null /\ e.body = Null /\ e.headers = Null)
        /\ worker.res.ok =>
              /\ e.status = worker.res.status /\ e.status \in Statuses
              /\ e.body = worker.res.body
              /\ e.headers = worker.res.headers
        /\ worker'.pc = "loop" ]_vars
C25_Witness ==
  /\ Len(responseQueue) = 2
  /\ ~responseQueue[1].success /\ responseQueue[1].status = Null
  /\ responseQueue[2].success /\ responseQueue[2].status = 404

\* C26: no operation of the main thread waits for a network call: while the
\* worker's call is in progress, the enqueue, the pickup of responses and the
\* reset can each take their next step.
C26_MainNeverWaits ==
  worker.pc = "call" =>
     /\ script.pc = "guard" => requestQueueMutex # "worker"
     /\ script.pc = "idle" => responseQueueMutex # "worker"
     /\ script.pc = "reset" => stateResetMutex # "worker"

\* C27: in every reachable state the worker or the main thread can take a
\* step, and a thread that cannot is waiting for a lock whose holder can:
\* the three locks never close a waiting cycle.
C27_NoDeadlock ==
  /\ (ENABLED WorkerSteps) \/ (ENABLED ScriptSteps)
  /\ ~(ENABLED WorkerSteps) =>
        \/ worker.pc = "loop" /\ stateResetMutex = "script"
        \/ worker.pc = "lock" /\ requestQueueMutex = "script"
        \/ worker.pc = "handle" /\ responseQueueMutex = "script"
  /\ ~(ENABLED ScriptSteps) =>
        \/ script.pc = "guard" /\ requestQueueMutex = "worker"
        \/ script.pc = "reset" /\ stateResetMutex = "worker"
C27_Witness ==
  /\ worker.pc = "lock" /\ requestQueueMutex = "script"
  /\ stateResetMutex = "worker"
  /\ ~(ENABLED WorkerSteps)

\* C28: while the ResetGame or the PostResetGame callback of hookAndReset
\* runs the reset redirect is installed; it is away only while an original
\* reset called by hookAndReset runs; and a host reset asked for from inside
\* either callback lands in the trampoline, never in the original directly.
C28_BypassOnlyOriginal ==
  /\ InCallbackOf("resetGame") => installed["ResetGame"]
  /\ ~installed["ResetGame"] =>
        \E i \in DOMAIN stack :
           IsReset(stack[i]) /\ stack[i].pc = "orig" /\ stack[i].hook = "ResetGame"
  /\ \A i \in DOMAIN stack :
        stack[i].name = "host_reset" =>
           /\ stack[i].pc \in {"wait", "ret"}
           /\ stack[i].pc = "wait" => (i < Len(stack) /\ IsReset(stack[i + 1]))
C28_Witness ==
  /\ Len(stack) = 3
  /\ IsReset(stack[1]) /\ stack[1].pc = "post"
  /\ stack[2].name = "host_reset" /\ stack[2].pc = "wait"
  /\ IsReset(stack[3]) /\ stack[3].pc = "orig"

\* the first slot of the accounts array whose subRosaID is zero, or the
\* array's length when there is none
FirstZero ==
  IF \E i \in Slots : accounts[i].subRosaID = 0
  THEN CHOOSE i \in Slots :
         accounts[i].subRosaID = 0 /\ \A j \in 0 .. (i - 1) : accounts[j].subRosaID # 0
  ELSE maxNumberOfAccounts
\* C29: accounts::getCount, getAll and getByPhone return, having read no slot
\* at index maxNumberOfAccounts or above, whatever the array holds; what they
\* return covers only the slots before the first zero subRosaID.
C29_AccountsBounded ==
  (done.k = "api" /\ done.name \in {"accounts_getCount", "accounts_getAll",
                                    "accounts_getByPhone"}) =>
     /\ done.ev = <<>>
     /\ done.aux < maxNumberOfAccounts
     /\ done.name = "accounts_getCount" => done.r = FirstZero
     /\ done.name = "accounts_getAll" => done.flags = 0 .. (FirstZero - 1)
     /\ done.name = "accounts_getByPhone" =>
          IF \E i \in 0 .. (FirstZero - 1) : accounts[i].phoneNumber = done.arg
          THEN done.r < FirstZero /\ accounts[done.r].phoneNumber = done.arg
          ELSE done.r = NoRef

\* C30: humans::create on player p calls the host's deleteHuman on p's human
\* first when p has one, and the host's createHuman next (or at once when p
\* has none).  When createHuman gives a slot, the operation returns with that
\* human's playerID = p and p's humanID = that slot.  When createHuman gives
\* -1 the operation returns nothing and its returning step changes no link
\* field and no side-storage entry; the step after deleteHuman changes no
\* side-storage entry either.
C30_HumanCreateLinks ==
  [][ /\ (Len(stack') = Len(stack) + 1 /\ stack'[Len(stack')].name = "humans_create") =>
        LET me == stack'[Len(stack')] IN
        IF humanID[me.arg] # NoRef
        THEN me.fn = "deleteHuman" /\ me.farg = humanID[me.arg]
        ELSE me.fn = "createHuman"
      /\ (Len(stack') = Len(stack) /\ stack # <<>>
          /\ stack[Len(stack)].name = "humans_create"
          /\ stack[Len(stack)].fn = "deleteHuman"
          /\ stack'[Len(stack')].fn # "deleteHuman") =>
        /\ stack'[Len(stack')].name = "humans_create"
        /\ stack'[Len(stack')].fn = "createHuman"
        /\ dataTables' = dataTables
      /\ (done'.k = "api" /\ done'.name = "humans_create") =>
        /\ done'.fn = "createHuman"
        /\ done'.r # NoRef =>
             /\ playerID'[done'.r] = done'.arg
             /\ humanID'[done'.arg] = done'.r
             /\ active'["humans"][done'.r]
        /\ done'.r = NoRef =>
             /\ humanID' = humanID
             /\ playerID' = playerID
             /\ dataTables' = dataTables ]_vars
\* a player that had a human got a new one
C30_Witness ==
  /\ done.k = "api" /\ done.name = "humans_create"
  /\ done.aux # NoRef
  /\ done.r # NoRef
  /\ humanID[done.arg] = done.r /\ playerID[done.r] = done.arg

====
